---- MODULE Spec2Model ----
(***************************************************************************)
(* The client-side authentication state machine of the Auth Gateway        *)
(* JavaScript SDK: the event-based VanillaAuthClient (vanilla-auth.ts) and *)
(* the React AuthProvider (auth-context.tsx), both on top of ApiClient     *)
(* (api-client.ts), the browser's localStorage, location and history.      *)
(*                                                                         *)
(* JavaScript runs every handler to completion, so one action is one       *)
(* synchronous stretch of code: from a call (or a response arriving) up to *)
(* the next await of a backend request.  The backend is the environment:   *)
(* every request in flight may be answered with success or with failure,   *)
(* in any order.                                                           *)
(*                                                                         *)
(* The EventEmitter class (events.ts) is specified on its own, by          *)
(* ChannelSpec: its four operations in any order, with callbacks that may  *)
(* throw.  SpecLive is the initialization protocol under fairness.         *)
(*                                                                         *)
(* Spec is the two clients on a page that registers no listener.           *)
(* ListenerSpec is the VanillaAuthClient with listeners: its handlers are  *)
(* run statement by statement, each setter emitting to the callbacks in    *)
(* place, which may throw.  ApiSpec is ApiClient used directly by a page,  *)
(* and RenderSpec the AuthProvider with components that call useAuth().    *)
(***************************************************************************)
EXTENDS Naturals, Sequences, FiniteSets

(* ------------------------------ bounds --------------------------------- *)

\* what the page does to one client over its life: calls of login() and
\* logout(), renders of the React provider with changed redirect paths,
\* calls of the listener methods, and requests made through ApiClient
MaxCalls == 2

\* registrations one topic of the event emitter holds at a time
MaxHandlers == 2

(* ------------------------------ values --------------------------------- *)

\* JavaScript null (searchParams.get of an absent parameter, no stored token,
\* no user, no error) and undefined
Null == "null"
Undefined == "undefined"
\* a parameter that is present with an empty value (?token=)
Empty == ""

Tokens == {"t1", "t2"}
Users == {"u1", "u2"}
Codes == {"c1"}
States == {"s1"}
\* the value of ?token= the backend redirects with
UrlTokens == {"t1"}

\* the page the browser is on when the client is created
Origin == "https://app"
StartPath == "/auth-callback"
\* the OAuth entry point POST /auth/login answers with
AuthUrl == "https://accounts/o/oauth2"
\* the URLs the backend may answer with
AuthUrls == {AuthUrl, "https://accounts/o/oauth2?hd=corp"}

\* AuthProviderProps defaults and the other values the props may take
DefaultLoginRedirectPath == "/"
DefaultUnauthorizedRedirectPath == "/login"
RedirectProps ==
  {<<DefaultLoginRedirectPath, DefaultUnauthorizedRedirectPath>>,
   <<"/home", "/denied">>}

ErrInit == "Failed to initialize authentication"
ErrAuthRetry == "Authentication failed. Please try again."
ErrAuthLogin == "Authentication failed. Please log in again."
ErrLogin == "Login failed. Please try again."
ErrLogout == "Logout failed. Please try again."
ErrNotInitialized == "Authentication not initialized"

\* JavaScript truthiness of a string-or-null value
Truthy(v) == v \notin {Null, Undefined, Empty}

\* window.location as the code reads it: pathname and the three query
\* parameters the SDK looks at
Location(path, token, code, state) ==
  [path |-> path, token |-> token, code |-> code, state |-> state]

\* history.replaceState({}, title, path): same document, new path, no query
ReplaceState(path) == Location(path, Null, Null, Null)

VARIABLES
  kind,        \* "vanilla" (VanillaAuthClient) or "react" (AuthProvider)
  created,     \* the constructor has run / the provider has mounted
  apiClient,   \* TRUE when this.apiClient / the apiClient state is non-null
  user,        \* UserData | null
  isLoading,   \* boolean
  error,       \* string | null
  store,       \* localStorage[StorageKeys.TOKEN], Null when absent
  url,         \* window.location
  navigated,   \* the URL assigned to window.location.href, Null while on the page
  lp,          \* prop loginRedirectPath
  up,          \* prop unauthorizedRedirectPath
  effectDue,   \* React: the effect on [apiClient, paths] is scheduled
  sent,        \* every backend request issued so far, in order
  inflight,    \* indices into sent of the requests not yet answered
  run,         \* number of runs of the initialization protocol started
  opCalls,     \* number of login() / logout() calls made
  reruns,      \* number of renders with changed redirect paths
  loadFalls,   \* number of true -> false transitions of isLoading
  lastEv,      \* the step taken last
  url0,        \* window.location when the client was created
  store0,      \* the token store when the client was created
  rerunFrom,   \* the settled state a re-run of the React callback effect began in
  events,      \* EventEmitter.events: event name -> callbacks, in push order
  unsubscribers, \* the unsubscribe functions on() has returned, as <<event, callback>>
  chanEv,      \* the EventEmitter call made last and what it invoked
  notified,    \* the listener invocations the step taken last made, in order
  cleared,     \* the registrations destroy() removed, until subscribed again
  lastCall,    \* the on...() / unsubscribe / destroy() call the step taken last made, and their count
  hook         \* what the last call of useAuth() returned or threw

\* the state of the authentication state machine
authVars == <<kind, created, apiClient, user, isLoading, error, store, url,
              navigated, lp, up, effectDue, sent, inflight, run,
              opCalls, reruns, loadFalls, lastEv, url0, store0, rerunFrom>>

\* the state of the event emitter
chanVars == <<events, unsubscribers, chanEv>>

\* what the page's own code has seen of the client
seenVars == <<notified, cleared, lastCall, hook>>

vars == <<authVars, chanVars, seenVars>>

\* state of the page outside the client
envVars == <<kind, url0, store0>>

(* ------------------------------ helpers -------------------------------- *)

\* a step: which code ran, for which request, what the backend returned, and
\* how the function that ran left off: "pending" at an await, "fulfilled"
\* when it returned, "rejected" when an exception left it
Ev(act, id, u, t, a, p) ==
  [act |-> act, id |-> id, user |-> u, token |-> t, authUrl |-> a, promise |-> p]

\* ApiClient's request interceptor: Authorization carries the stored token
\* when there is one, and is absent otherwise
AuthHeader(st) == IF Truthy(st) THEN st ELSE Null

\* a request as it leaves ApiClient
Request(op, flow, r, st, code, state, redirect, okPath, failPath) ==
  [op |-> op, flow |-> flow, run |-> r, auth |-> AuthHeader(st),
   code |-> code, state |-> state, redirect |-> redirect,
   okPath |-> okPath, failPath |-> failPath]

\* the number of falls of isLoading after it is set to each value of vals in turn
RECURSIVE Falls(_, _, _)
Falls(cur, vals, n) ==
  IF vals = <<>> THEN n
  ELSE Falls(Head(vals), Tail(vals),
             IF cur /\ ~Head(vals) THEN n + 1 ELSE n)

\* PickFlow with the two URL tests in the other order
PickFlowCodeFirst(token, code) ==
  IF Truthy(code) THEN "code"
  ELSE IF Truthy(token) THEN "direct"
  ELSE "stored"

\* which of the three flows initialization takes for the parameters in the URL
PickFlow(token, code) ==
  IF Truthy(token) THEN "direct"
  ELSE IF Truthy(code) THEN "code"
  ELSE "stored"

\* `state || undefined`
StateArg(state) == IF Truthy(state) THEN state ELSE Undefined

\* ApiClient.login: `redirectUri || window.location.origin`
LoginBody(redirectUri) == IF Truthy(redirectUri) THEN redirectUri ELSE Origin

\* VanillaAuthClient.getRedirectUri
GetRedirectUri == Origin \o url.path

OnPage == navigated = Null

\* the URLs the page may be opened with: any mix of token and code, each
\* absent, empty or set, and a state parameter beside a code
\* the event names and callbacks the page uses, and the argument lists it
\* emits
Topics == {"authStateChanged", "error"}
Handlers == {"h1", "h2"}
ArgLists == {<<"a1">>, <<"a2", "a1">>}

\* the events VanillaAuthClient emits
AuthStateChanged == "authStateChanged"
LoadingStateChanged == "loadingStateChanged"
ErrorEvent == "error"
ClientTopics == {AuthStateChanged, LoadingStateChanged, ErrorEvent}

\* a call the page made of onAuthStateChanged, onLoadingStateChanged or
\* onError (method, callback), of an unsubscribe function (event, callback)
\* or of destroy: n counts these calls, threw tells whether an exception
\* left the call
PageCall(n, method, event, callback, threw) ==
  [n |-> n, method |-> method, event |-> event, callback |-> callback,
   threw |-> threw]

\* no such call has been made
NoCall == PageCall(0, Null, Null, Null, FALSE)

\* useAuth() has not been called
NoHook == [called |-> FALSE]

\* `events = {}`: no event name has a callback array
NoEvents == [e \in {} |-> <<>>]

\* an EventEmitter call: the method, its event and callback arguments, the
\* emitted arguments, the invocations it made in order, and whether an
\* exception left it
ChanEv(op, event, callback, args, calls, threw) ==
  [op |-> op, event |-> event, callback |-> callback, args |-> args,
   calls |-> calls, threw |-> threw]

\* what a run of the callback effect remembers of the state it began in:
\* nothing on the first run or while a request is in flight, else the settled
\* state and the number of calls and renders the page had made
NotSettled ==
  [settled |-> FALSE, user |-> Null, isLoading |-> FALSE, error |-> Null,
   store |-> Null, calls |-> 0]

SettledState(u, l, e, st, n) ==
  [settled |-> TRUE, user |-> u, isLoading |-> l, error |-> e,
   store |-> st, calls |-> n]

StartUrls ==
  {l \in {Location(StartPath, t, c, s) :
            t \in UrlTokens \cup {Null, Empty},
            c \in Codes \cup {Null, Empty},
            s \in States \cup {Null, Empty}} :
     l.code \in Codes \/ l.state = Null}

Init ==
  /\ kind \in {"vanilla", "react"}
  /\ created = FALSE
  /\ apiClient = FALSE
  /\ user = Null
  /\ isLoading = TRUE
  /\ error = Null
  /\ store \in Tokens \cup {Null}
  /\ url \in StartUrls
  /\ navigated = Null
  /\ lp = DefaultLoginRedirectPath
  /\ up = DefaultUnauthorizedRedirectPath
  /\ effectDue = FALSE
  /\ sent = <<>>
  /\ inflight = {}
  /\ run = 0
  /\ opCalls = 0
  /\ reruns = 0
  /\ loadFalls = 0
  /\ lastEv = Ev("init", 0, Null, Null, Null, Null)
  /\ url0 = url
  /\ store0 = store
  /\ rerunFrom = NotSettled
  /\ events = NoEvents
  /\ unsubscribers = {}
  /\ chanEv = ChanEv("new", Null, Null, <<>>, <<>>, FALSE)
  /\ notified = <<>>
  /\ cleared = {}
  /\ lastCall = NoCall
  /\ hook = NoHook


(* --------------------------- request plumbing -------------------------- *)

\* the request leaves: it is logged and stays in flight until answered
Send(req) ==
  /\ sent' = Append(sent, req)
  /\ inflight' = inflight \cup {Len(sent) + 1}

\* nothing is sent in this step
NoSend == UNCHANGED <<sent, inflight>>

\* the answer to request i is consumed
Answered(i) ==
  /\ inflight' = inflight \ {i}
  /\ UNCHANGED sent

\* request i is in flight and was issued by the given flow
Pending(i, k, flow) ==
  /\ OnPage
  /\ kind = k
  /\ i \in inflight
  /\ sent[i].flow = flow

\* isLoading is set to each value of vals in turn
SetLoading(vals) ==
  /\ isLoading' = vals[Len(vals)]
  /\ loadFalls' = Falls(isLoading, vals, loadFalls)

(* ------------------------- VanillaAuthClient --------------------------- *)

\* handleDirectToken issuing the verification with the header of the token
\* that was stored before the setItem
V_handleDirectTokenStaleHeader(token) ==
  /\ SetLoading(<<TRUE>>)
  /\ error' = Null
  /\ store' = token
  /\ Send(Request("verify", "direct", run + 1, store, Null, Null, Null, Null, Null))
  /\ lastEv' = Ev("start_direct", Len(sent) + 1, Null, Null, Null, "pending")
  /\ UNCHANGED <<user, url>>

\* handleDirectToken up to `await this.apiClient.getCurrentUser()`
V_handleDirectToken(token) ==
  /\ SetLoading(<<TRUE>>)
  /\ error' = Null
  /\ store' = token
  /\ Send(Request("verify", "direct", run + 1, token, Null, Null, Null, Null, Null))
  /\ lastEv' = Ev("start_direct", Len(sent) + 1, Null, Null, Null, "pending")
  /\ UNCHANGED <<user, url>>

\* handleCallback up to `await this.apiClient.handleCallback(code, state)`
V_handleCallback(code, state) ==
  /\ SetLoading(<<TRUE>>)
  /\ error' = Null
  /\ Send(Request("callback", "code", run + 1, store, code, state, Null, Null, Null))
  /\ lastEv' = Ev("start_code", Len(sent) + 1, Null, Null, Null, "pending")
  /\ UNCHANGED <<user, url, store>>

\* checkExistingAuth without the early return for an empty token store
V_checkExistingAuthNoReturn ==
  /\ Send(Request("verify", "stored", run + 1, store, Null, Null, Null, Null, Null))
  /\ lastEv' = Ev("start_stored", Len(sent) + 1, Null, Null, Null, "pending")
  /\ UNCHANGED <<user, url, store, error, isLoading, loadFalls>>

\* checkExistingAuth up to `await this.apiClient.getCurrentUser()`, or to
\* its early return when nothing is stored
V_checkExistingAuth ==
  IF ~Truthy(store)
  THEN /\ SetLoading(<<FALSE>>)
       /\ NoSend
       /\ lastEv' = Ev("settled_anonymous", 0, Null, Null, Null, "fulfilled")
       /\ UNCHANGED <<user, url, store, error>>
  ELSE /\ Send(Request("verify", "stored", run + 1, store, Null, Null, Null, Null, Null))
       /\ lastEv' = Ev("start_stored", Len(sent) + 1, Null, Null, Null, "pending")
       /\ UNCHANGED <<user, url, store, error, isLoading, loadFalls>>

\* the body of initialize once createApiClient has returned
V_initializeFlows ==
  LET flow == PickFlow(url.token, url.code) IN
  CASE flow = "direct" -> V_handleDirectToken(url.token)
    [] flow = "code" -> V_handleCallback(url.code, StateArg(url.state))
    [] OTHER -> V_checkExistingAuth

\* new VanillaAuthClient(config): the constructor runs initialize up to its
\* first await; createApiClient returns or throws
V_Construct ==
  /\ kind = "vanilla"
  /\ ~created
  /\ created' = TRUE
  /\ run' = run + 1
  /\ \E ok \in BOOLEAN :
       IF ok
       THEN /\ apiClient' = TRUE
            /\ V_initializeFlows
       ELSE /\ apiClient' = FALSE
            /\ error' = ErrInit
            /\ SetLoading(<<FALSE>>)
            /\ NoSend
            /\ lastEv' = Ev("init_failed", 0, Null, Null, Null, "fulfilled")
            /\ UNCHANGED <<user, url, store>>
  /\ UNCHANGED <<navigated, lp, up, effectDue, opCalls, reruns, envVars, rerunFrom, chanVars, seenVars>>

\* what no answer to a request changes
AnswerFrame ==
  UNCHANGED <<created, apiClient, lp, up, effectDue, run, opCalls,
              reruns, envVars, rerunFrom, chanVars, seenVars>>

\* handleDirectToken after the await: getCurrentUser resolved with u
V_DirectOk(i, u) ==
  /\ Pending(i, "vanilla", "direct")
  /\ Answered(i)
  /\ user' = u
  /\ url' = ReplaceState(url.path)
  /\ SetLoading(<<FALSE>>)
  /\ lastEv' = Ev("direct_ok", i, u, Null, Null, "fulfilled")
  /\ UNCHANGED <<error, store, navigated>>
  /\ AnswerFrame

\* handleDirectToken's catch block without the removeItem
V_DirectFailKeepsToken(i) ==
  /\ Pending(i, "vanilla", "direct")
  /\ Answered(i)
  /\ error' = ErrAuthRetry
  /\ SetLoading(<<FALSE>>)
  /\ lastEv' = Ev("direct_fail", i, Null, Null, Null, "fulfilled")
  /\ UNCHANGED <<user, store, url, navigated>>
  /\ AnswerFrame

\* handleDirectToken after the await: getCurrentUser rejected
V_DirectFail(i) ==
  /\ Pending(i, "vanilla", "direct")
  /\ Answered(i)
  /\ error' = ErrAuthRetry
  /\ store' = Null
  /\ SetLoading(<<FALSE>>)
  /\ lastEv' = Ev("direct_fail", i, Null, Null, Null, "fulfilled")
  /\ UNCHANGED <<user, url, navigated>>
  /\ AnswerFrame

\* handleCallback after the await: the exchange resolved with {token: t, user: u}
V_CallbackOk(i, t, u) ==
  /\ Pending(i, "vanilla", "code")
  /\ Answered(i)
  /\ store' = t
  /\ user' = u
  /\ url' = ReplaceState(url.path)
  /\ SetLoading(<<FALSE>>)
  /\ lastEv' = Ev("callback_ok", i, u, t, Null, "fulfilled")
  /\ UNCHANGED <<error, navigated>>
  /\ AnswerFrame

\* handleCallback after the await: the exchange rejected
V_CallbackFail(i) ==
  /\ Pending(i, "vanilla", "code")
  /\ Answered(i)
  /\ error' = ErrAuthRetry
  /\ store' = Null
  /\ SetLoading(<<FALSE>>)
  /\ lastEv' = Ev("callback_fail", i, Null, Null, Null, "fulfilled")
  /\ UNCHANGED <<user, url, navigated>>
  /\ AnswerFrame

\* V_ExistingOk without the finally block
V_ExistingOkNoFinally(i, u) ==
  /\ Pending(i, "vanilla", "stored")
  /\ Answered(i)
  /\ user' = u
  /\ lastEv' = Ev("existing_ok", i, u, Null, Null, "fulfilled")
  /\ UNCHANGED <<error, store, url, navigated, isLoading, loadFalls>>
  /\ AnswerFrame

\* checkExistingAuth after the await: getCurrentUser resolved with u
V_ExistingOk(i, u) ==
  /\ Pending(i, "vanilla", "stored")
  /\ Answered(i)
  /\ user' = u
  /\ SetLoading(<<FALSE>>)
  /\ lastEv' = Ev("existing_ok", i, u, Null, Null, "fulfilled")
  /\ UNCHANGED <<error, store, url, navigated>>
  /\ AnswerFrame

\* checkExistingAuth after the await: getCurrentUser rejected
V_ExistingFail(i) ==
  /\ Pending(i, "vanilla", "stored")
  /\ Answered(i)
  /\ store' = Null
  /\ error' = ErrAuthLogin
  /\ SetLoading(<<FALSE>>)
  /\ lastEv' = Ev("existing_fail", i, Null, Null, Null, "fulfilled")
  /\ UNCHANGED <<user, url, navigated>>
  /\ AnswerFrame

\* what no call of login() or logout() changes
CallFrame ==
  UNCHANGED <<created, apiClient, user, store, url, navigated, lp, up,
              effectDue, run, reruns, envVars, rerunFrom, chanVars, seenVars>>

\* a call of login() or logout() the page may make now
MayCall(k) ==
  /\ OnPage
  /\ kind = k
  /\ created
  /\ ~effectDue
  /\ opCalls + reruns < MaxCalls
  /\ opCalls' = opCalls + 1

\* login() up to `await this.apiClient.login(redirectUri)`
V_Login ==
  /\ MayCall("vanilla")
  /\ IF ~apiClient
     THEN /\ error' = ErrNotInitialized
          /\ NoSend
          /\ lastEv' = Ev("login_guard", 0, Null, Null, Null, "fulfilled")
          /\ UNCHANGED <<isLoading, loadFalls>>
     ELSE /\ SetLoading(<<TRUE>>)
          /\ error' = Null
          /\ Send(Request("login", "login", 0, store, Null, Null,
                          LoginBody(GetRedirectUri), Null, Null))
          /\ lastEv' = Ev("login", Len(sent) + 1, Null, Null, Null, "pending")
  /\ CallFrame

\* login() resetting isLoading after it has set location.href
V_LoginOkStopsLoading(i, authUrl) ==
  /\ Pending(i, "vanilla", "login")
  /\ Answered(i)
  /\ navigated' = authUrl
  /\ SetLoading(<<FALSE>>)
  /\ lastEv' = Ev("login_ok", i, Null, Null, authUrl, "fulfilled")
  /\ UNCHANGED <<user, error, store, url>>
  /\ AnswerFrame

\* login() after the await: the backend answered with the URL to go to
V_LoginOk(i, authUrl) ==
  /\ Pending(i, "vanilla", "login")
  /\ Answered(i)
  /\ navigated' = authUrl
  /\ lastEv' = Ev("login_ok", i, Null, Null, authUrl, "fulfilled")
  /\ UNCHANGED <<user, isLoading, loadFalls, error, store, url>>
  /\ AnswerFrame

\* login() after the await: the request failed
V_LoginFail(i) ==
  /\ Pending(i, "vanilla", "login")
  /\ Answered(i)
  /\ error' = ErrLogin
  /\ SetLoading(<<FALSE>>)
  /\ lastEv' = Ev("login_fail", i, Null, Null, Null, "fulfilled")
  /\ UNCHANGED <<user, store, url, navigated>>
  /\ AnswerFrame

\* logout() up to `await this.apiClient.logout()`
V_Logout ==
  /\ MayCall("vanilla")
  /\ IF ~apiClient
     THEN /\ error' = ErrNotInitialized
          /\ NoSend
          /\ lastEv' = Ev("logout_guard", 0, Null, Null, Null, "fulfilled")
          /\ UNCHANGED <<isLoading, loadFalls>>
     ELSE /\ SetLoading(<<TRUE>>)
          /\ error' = Null
          /\ Send(Request("logout", "logout", 0, store, Null, Null, Null, Null, Null))
          /\ lastEv' = Ev("logout", Len(sent) + 1, Null, Null, Null, "pending")
  /\ CallFrame

\* logout() after the await: the backend call resolved
V_LogoutOk(i) ==
  /\ Pending(i, "vanilla", "logout")
  /\ Answered(i)
  /\ store' = Null
  /\ user' = Null
  /\ SetLoading(<<FALSE>>)
  /\ lastEv' = Ev("logout_ok", i, Null, Null, Null, "fulfilled")
  /\ UNCHANGED <<error, url, navigated>>
  /\ AnswerFrame

\* logout() without its catch block: the failure of the request leaves
\* logout() as an exception; the finally block still runs
V_LogoutFailUncaught(i) ==
  /\ Pending(i, "vanilla", "logout")
  /\ Answered(i)
  /\ SetLoading(<<FALSE>>)
  /\ lastEv' = Ev("logout_fail", i, Null, Null, Null, "rejected")
  /\ UNCHANGED <<user, error, store, url, navigated>>
  /\ AnswerFrame

\* logout() after the await: the backend call rejected
V_LogoutFail(i) ==
  /\ Pending(i, "vanilla", "logout")
  /\ Answered(i)
  /\ error' = ErrLogout
  /\ SetLoading(<<FALSE>>)
  /\ lastEv' = Ev("logout_fail", i, Null, Null, Null, "fulfilled")
  /\ UNCHANGED <<user, store, url, navigated>>
  /\ AnswerFrame


(* ----------------------------- AuthProvider ---------------------------- *)

\* the first effect without setIsLoading(false) in its catch block
R_InitEffectFailKeepsLoading ==
  /\ OnPage
  /\ kind = "react"
  /\ ~created
  /\ created' = TRUE
  /\ \E ok \in BOOLEAN :
       IF ok
       THEN /\ apiClient' = TRUE
            /\ effectDue' = TRUE
            /\ lastEv' = Ev("client_created", 0, Null, Null, Null, "fulfilled")
            /\ UNCHANGED <<error, isLoading, loadFalls>>
       ELSE /\ error' = ErrInit
            /\ lastEv' = Ev("init_failed", 0, Null, Null, Null, "fulfilled")
            /\ UNCHANGED <<apiClient, effectDue, isLoading, loadFalls>>
  /\ NoSend
  /\ UNCHANGED <<user, store, url, navigated, lp, up, run, opCalls, reruns, envVars, rerunFrom, chanVars, seenVars>>

\* the effect on [authBackendUrl], run when the provider mounts:
\* createApiClient returns or throws
R_InitEffect ==
  /\ OnPage
  /\ kind = "react"
  /\ ~created
  /\ created' = TRUE
  /\ \E ok \in BOOLEAN :
       IF ok
       THEN /\ apiClient' = TRUE
            /\ effectDue' = TRUE
            /\ lastEv' = Ev("client_created", 0, Null, Null, Null, "fulfilled")
            /\ UNCHANGED <<error, isLoading, loadFalls>>
       ELSE /\ error' = ErrInit
            /\ SetLoading(<<FALSE>>)
            /\ lastEv' = Ev("init_failed", 0, Null, Null, Null, "fulfilled")
            /\ UNCHANGED <<apiClient, effectDue>>
  /\ NoSend
  /\ UNCHANGED <<user, store, url, navigated, lp, up, run, opCalls, reruns, envVars, rerunFrom, chanVars, seenVars>>

\* the direct-token branch calling getUserData() without storing the token
R_directTokenNotStored(token) ==
  /\ SetLoading(<<TRUE>>)
  /\ error' = Null
  /\ Send(Request("verify", "direct", run + 1, store, Null, Null, Null, lp, up))
  /\ url' = ReplaceState(lp)
  /\ lastEv' = Ev("start_direct", Len(sent) + 1, Null, Null, Null, "pending")
  /\ UNCHANGED <<user, store>>

\* the direct-token branch of the effect: everything it does before the
\* answer to getCurrentUser, the history replace after getUserData() included
R_directToken(token) ==
  /\ SetLoading(<<TRUE>>)
  /\ error' = Null
  /\ store' = token
  /\ Send(Request("verify", "direct", run + 1, token, Null, Null, Null, lp, up))
  /\ url' = ReplaceState(lp)
  /\ lastEv' = Ev("start_direct", Len(sent) + 1, Null, Null, Null, "pending")
  /\ UNCHANGED user

\* the code branch: handleCallback() up to `await apiClient.handleCallback`
R_handleCallback(code, state) ==
  /\ SetLoading(<<TRUE>>)
  /\ error' = Null
  /\ Send(Request("callback", "code", run + 1, store, code, state, Null, lp, up))
  /\ lastEv' = Ev("start_code", Len(sent) + 1, Null, Null, Null, "pending")
  /\ UNCHANGED <<user, url, store>>

\* the last branch: checkAuth() up to `await apiClient.getCurrentUser()`, or
\* to its early return when nothing is stored
R_checkAuth ==
  IF ~Truthy(store)
  THEN /\ SetLoading(<<FALSE>>)
       /\ NoSend
       /\ lastEv' = Ev("settled_anonymous", 0, Null, Null, Null, "fulfilled")
       /\ UNCHANGED <<user, url, store, error>>
  ELSE /\ Send(Request("verify", "stored", run + 1, store, Null, Null, Null, lp, up))
       /\ lastEv' = Ev("start_stored", Len(sent) + 1, Null, Null, Null, "pending")
       /\ UNCHANGED <<user, url, store, error, isLoading, loadFalls>>

\* the effect on [apiClient, loginRedirectPath, unauthorizedRedirectPath]
R_CallbackEffect ==
  /\ OnPage
  /\ kind = "react"
  /\ effectDue
  /\ apiClient
  /\ effectDue' = FALSE
  /\ run' = run + 1
  /\ rerunFrom' = IF run >= 1 /\ inflight = {}
                  THEN SettledState(user, isLoading, error, store, opCalls + reruns)
                  ELSE NotSettled
  /\ LET flow == PickFlow(url.token, url.code) IN
       CASE flow = "direct" -> R_directToken(url.token)
         [] flow = "code" -> R_handleCallback(url.code, StateArg(url.state))
         [] OTHER -> R_checkAuth
  /\ UNCHANGED <<created, apiClient, navigated, lp, up, opCalls, reruns,
                 envVars, chanVars, seenVars>>

\* the parent renders the provider with other redirect paths: the effect
\* is scheduled again when there is an API client for it to use
R_ChangePaths(newLp, newUp) ==
  /\ OnPage
  /\ kind = "react"
  /\ created
  /\ ~effectDue
  /\ opCalls + reruns < MaxCalls
  /\ reruns' = reruns + 1
  /\ <<newLp, newUp>> # <<lp, up>>
  /\ lp' = newLp
  /\ up' = newUp
  /\ effectDue' = apiClient
  /\ lastEv' = Ev("props", 0, Null, Null, Null, Null)
  /\ NoSend
  /\ UNCHANGED <<created, apiClient, user, isLoading, loadFalls, error, store,
                 url, navigated, run, opCalls, envVars, rerunFrom, chanVars, seenVars>>

\* getUserData after the await: getCurrentUser resolved with u
R_DirectOk(i, u) ==
  /\ Pending(i, "react", "direct")
  /\ Answered(i)
  /\ user' = u
  /\ SetLoading(<<FALSE>>)
  /\ lastEv' = Ev("direct_ok", i, u, Null, Null, "fulfilled")
  /\ UNCHANGED <<error, store, url, navigated>>
  /\ AnswerFrame

\* R_DirectFail without the history replace in the catch block
R_DirectFailNoRedirect(i) ==
  /\ Pending(i, "react", "direct")
  /\ Answered(i)
  /\ error' = ErrAuthRetry
  /\ store' = Null
  /\ SetLoading(<<FALSE>>)
  /\ lastEv' = Ev("direct_fail", i, Null, Null, Null, "fulfilled")
  /\ UNCHANGED <<user, url, navigated>>
  /\ AnswerFrame

\* getUserData after the await: getCurrentUser rejected
R_DirectFail(i) ==
  /\ Pending(i, "react", "direct")
  /\ Answered(i)
  /\ error' = ErrAuthRetry
  /\ store' = Null
  /\ url' = ReplaceState(sent[i].failPath)
  /\ SetLoading(<<FALSE>>)
  /\ lastEv' = Ev("direct_fail", i, Null, Null, Null, "fulfilled")
  /\ UNCHANGED <<user, navigated>>
  /\ AnswerFrame

\* handleCallback without the replaceState after a successful exchange
R_CallbackOkKeepsUrl(i, t, u) ==
  /\ Pending(i, "react", "code")
  /\ Answered(i)
  /\ store' = t
  /\ user' = u
  /\ SetLoading(<<FALSE>>)
  /\ lastEv' = Ev("callback_ok", i, u, t, Null, "fulfilled")
  /\ UNCHANGED <<error, url, navigated>>
  /\ AnswerFrame

\* handleCallback after the await: the exchange resolved with {token: t, user: u}
R_CallbackOk(i, t, u) ==
  /\ Pending(i, "react", "code")
  /\ Answered(i)
  /\ store' = t
  /\ user' = u
  /\ url' = ReplaceState(sent[i].okPath)
  /\ SetLoading(<<FALSE>>)
  /\ lastEv' = Ev("callback_ok", i, u, t, Null, "fulfilled")
  /\ UNCHANGED <<error, navigated>>
  /\ AnswerFrame

\* R_CallbackFail without localStorage.removeItem
R_CallbackFailKeepsToken(i) ==
  /\ Pending(i, "react", "code")
  /\ Answered(i)
  /\ error' = ErrAuthRetry
  /\ url' = ReplaceState(sent[i].failPath)
  /\ SetLoading(<<FALSE>>)
  /\ lastEv' = Ev("callback_fail", i, Null, Null, Null, "fulfilled")
  /\ UNCHANGED <<user, store, navigated>>
  /\ AnswerFrame

\* handleCallback after the await: the exchange rejected
R_CallbackFail(i) ==
  /\ Pending(i, "react", "code")
  /\ Answered(i)
  /\ error' = ErrAuthRetry
  /\ store' = Null
  /\ url' = ReplaceState(sent[i].failPath)
  /\ SetLoading(<<FALSE>>)
  /\ lastEv' = Ev("callback_fail", i, Null, Null, Null, "fulfilled")
  /\ UNCHANGED <<user, navigated>>
  /\ AnswerFrame

\* checkAuth after the await: getCurrentUser resolved with u
R_ExistingOk(i, u) ==
  /\ Pending(i, "react", "stored")
  /\ Answered(i)
  /\ user' = u
  /\ SetLoading(<<FALSE>>)
  /\ lastEv' = Ev("existing_ok", i, u, Null, Null, "fulfilled")
  /\ UNCHANGED <<error, store, url, navigated>>
  /\ AnswerFrame

\* checkAuth without its finally block: a rejected stored token leaves
\* isLoading as it is
R_ExistingFailNoFinally(i) ==
  /\ Pending(i, "react", "stored")
  /\ Answered(i)
  /\ store' = Null
  /\ error' = ErrAuthLogin
  /\ lastEv' = Ev("existing_fail", i, Null, Null, Null, "fulfilled")
  /\ UNCHANGED <<user, url, navigated, isLoading, loadFalls>>
  /\ AnswerFrame

\* R_ExistingFail without localStorage.removeItem
R_ExistingFailKeepsToken(i) ==
  /\ Pending(i, "react", "stored")
  /\ Answered(i)
  /\ error' = ErrAuthLogin
  /\ SetLoading(<<FALSE>>)
  /\ lastEv' = Ev("existing_fail", i, Null, Null, Null, "fulfilled")
  /\ UNCHANGED <<user, store, url, navigated>>
  /\ AnswerFrame

\* checkAuth after the await: getCurrentUser rejected
R_ExistingFail(i) ==
  /\ Pending(i, "react", "stored")
  /\ Answered(i)
  /\ store' = Null
  /\ error' = ErrAuthLogin
  /\ SetLoading(<<FALSE>>)
  /\ lastEv' = Ev("existing_fail", i, Null, Null, Null, "fulfilled")
  /\ UNCHANGED <<user, url, navigated>>
  /\ AnswerFrame

\* login() up to `await apiClient.login(window.location.origin)`
R_Login ==
  /\ MayCall("react")
  /\ IF ~apiClient
     THEN /\ error' = ErrNotInitialized
          /\ NoSend
          /\ lastEv' = Ev("login_guard", 0, Null, Null, Null, "fulfilled")
          /\ UNCHANGED <<isLoading, loadFalls>>
     ELSE /\ SetLoading(<<TRUE>>)
          /\ error' = Null
          /\ Send(Request("login", "login", 0, store, Null, Null,
                          LoginBody(Origin), Null, Null))
          /\ lastEv' = Ev("login", Len(sent) + 1, Null, Null, Null, "pending")
  /\ CallFrame

\* login() after the await: the backend answered with the URL to go to
R_LoginOk(i, authUrl) ==
  /\ Pending(i, "react", "login")
  /\ Answered(i)
  /\ navigated' = authUrl
  /\ lastEv' = Ev("login_ok", i, Null, Null, authUrl, "fulfilled")
  /\ UNCHANGED <<user, isLoading, loadFalls, error, store, url>>
  /\ AnswerFrame

\* login()'s catch block clearing the session as logout() does
R_LoginFailClearsSession(i) ==
  /\ Pending(i, "react", "login")
  /\ Answered(i)
  /\ error' = ErrLogin
  /\ user' = Null
  /\ store' = Null
  /\ SetLoading(<<FALSE>>)
  /\ lastEv' = Ev("login_fail", i, Null, Null, Null, "fulfilled")
  /\ UNCHANGED <<url, navigated>>
  /\ AnswerFrame

\* login() after the await: the request failed
R_LoginFail(i) ==
  /\ Pending(i, "react", "login")
  /\ Answered(i)
  /\ error' = ErrLogin
  /\ SetLoading(<<FALSE>>)
  /\ lastEv' = Ev("login_fail", i, Null, Null, Null, "fulfilled")
  /\ UNCHANGED <<user, store, url, navigated>>
  /\ AnswerFrame

\* logout() whose guard comes after setIsLoading(true)
R_LogoutGuardAfterLoading ==
  /\ MayCall("react")
  /\ IF ~apiClient
     THEN /\ SetLoading(<<TRUE>>)
          /\ error' = ErrNotInitialized
          /\ NoSend
          /\ lastEv' = Ev("logout_guard", 0, Null, Null, Null, "fulfilled")
     ELSE /\ SetLoading(<<TRUE>>)
          /\ error' = Null
          /\ Send(Request("logout", "logout", 0, store, Null, Null, Null, Null, Null))
          /\ lastEv' = Ev("logout", Len(sent) + 1, Null, Null, Null, "pending")
  /\ CallFrame

\* logout() up to `await apiClient.logout()`
R_Logout ==
  /\ MayCall("react")
  /\ IF ~apiClient
     THEN /\ error' = ErrNotInitialized
          /\ NoSend
          /\ lastEv' = Ev("logout_guard", 0, Null, Null, Null, "fulfilled")
          /\ UNCHANGED <<isLoading, loadFalls>>
     ELSE /\ SetLoading(<<TRUE>>)
          /\ error' = Null
          /\ Send(Request("logout", "logout", 0, store, Null, Null, Null, Null, Null))
          /\ lastEv' = Ev("logout", Len(sent) + 1, Null, Null, Null, "pending")
  /\ CallFrame

\* logout() after the await: the backend call resolved
R_LogoutOk(i) ==
  /\ Pending(i, "react", "logout")
  /\ Answered(i)
  /\ store' = Null
  /\ user' = Null
  /\ SetLoading(<<FALSE>>)
  /\ lastEv' = Ev("logout_ok", i, Null, Null, Null, "fulfilled")
  /\ UNCHANGED <<error, url, navigated>>
  /\ AnswerFrame

\* logout() after the await: the backend call rejected
R_LogoutFail(i) ==
  /\ Pending(i, "react", "logout")
  /\ Answered(i)
  /\ error' = ErrLogout
  /\ SetLoading(<<FALSE>>)
  /\ lastEv' = Ev("logout_fail", i, Null, Null, Null, "fulfilled")
  /\ UNCHANGED <<user, store, url, navigated>>
  /\ AnswerFrame

(* ----------------------------- EventEmitter ---------------------------- *)

\* one invocation of a callback
Call(callback, args) == [callback |-> callback, args |-> args]

\* Array.prototype.forEach over the callbacks of one event: each is called
\* with the emitted arguments, in array order; the exception of a callback
\* that throws leaves forEach, so the callbacks after it are not called
RECURSIVE ForEach(_, _, _)
ForEach(callbacks, args, throwing) ==
  IF callbacks = <<>>
  THEN <<>>
  ELSE <<Call(Head(callbacks), args)>> \o
         (IF Head(callbacks) \in throwing
          THEN <<>>
          ELSE ForEach(Tail(callbacks), args, throwing))

\* the callbacks registered for an event, none when the key is absent
Registered(event) == IF event \in DOMAIN events THEN events[event] ELSE <<>>

\* on(event, callback): create the array if the key is absent, push, and
\* return the unsubscribe function
On(event, callback) ==
  /\ Len(Registered(event)) < MaxHandlers
  /\ events' = [e \in DOMAIN events \cup {event} |->
                  IF e = event THEN Append(Registered(event), callback)
                  ELSE events[e]]
  /\ unsubscribers' = unsubscribers \cup {<<event, callback>>}
  /\ chanEv' = ChanEv("on", event, callback, <<>>, <<>>, FALSE)
  /\ UNCHANGED authVars

\* emit calling the callbacks newest first
EmitNewestFirst(event, args, throwing) ==
  /\ LET callbacks == Registered(event)
         newestFirst == [j \in 1 .. Len(callbacks) |->
                           callbacks[Len(callbacks) + 1 - j]]
         calls == ForEach(newestFirst, args, throwing)
     IN chanEv' = ChanEv("emit", event, Null, args, calls,
                         \E j \in DOMAIN calls : calls[j].callback \in throwing)
  /\ UNCHANGED <<events, unsubscribers, authVars>>

\* emit(event, ...args): the callbacks in `throwing` throw when called
Emit(event, args, throwing) ==
  /\ LET calls == ForEach(Registered(event), args, throwing) IN
       chanEv' = ChanEv("emit", event, Null, args, calls,
                        \E j \in DOMAIN calls : calls[j].callback \in throwing)
  /\ UNCHANGED <<events, unsubscribers, authVars>>

\* clear that ignores its argument
ClearEverything(event) ==
  /\ events' = NoEvents
  /\ chanEv' = ChanEv("clear", event, Null, <<>>, <<>>, FALSE)
  /\ UNCHANGED <<unsubscribers, authVars>>

\* clear(event?): delete the key of a truthy event name, else reset events
Clear(event) ==
  /\ events' = IF Truthy(event)
               THEN [e \in DOMAIN events \ {event} |-> events[e]]
               ELSE NoEvents
  /\ chanEv' = ChanEv("clear", event, Null, <<>>, <<>>, FALSE)
  /\ UNCHANGED <<unsubscribers, authVars>>

\* an unsubscribe function that drops the whole array of its event
UnsubscribeDropsEvent(event, callback) ==
  /\ <<event, callback>> \in unsubscribers
  /\ IF event \in DOMAIN events
     THEN /\ events' = [events EXCEPT ![event] = <<>>]
          /\ chanEv' = ChanEv("unsubscribe", event, callback, <<>>, <<>>, FALSE)
     ELSE /\ chanEv' = ChanEv("unsubscribe", event, callback, <<>>, <<>>, TRUE)
          /\ UNCHANGED events
  /\ UNCHANGED <<unsubscribers, authVars>>

\* the function on(event, callback) returned: the array of the event is
\* replaced by its filter; when the key is gone, reading .filter of
\* undefined throws a TypeError
Unsubscribe(event, callback) ==
  /\ <<event, callback>> \in unsubscribers
  /\ IF event \in DOMAIN events
     THEN /\ events' = [events EXCEPT
                          ![event] = SelectSeq(@, LAMBDA cb : cb # callback)]
          /\ chanEv' = ChanEv("unsubscribe", event, callback, <<>>, <<>>, FALSE)
     ELSE /\ chanEv' = ChanEv("unsubscribe", event, callback, <<>>, <<>>, TRUE)
          /\ UNCHANGED events
  /\ UNCHANGED <<unsubscribers, authVars>>

(* --------------------------- the specification -------------------------- *)

Next ==
  \/ V_Construct
  \/ \E i \in inflight, u \in Users : V_DirectOk(i, u)
  \/ \E i \in inflight : V_DirectFail(i)
  \/ \E i \in inflight, t \in Tokens, u \in Users : V_CallbackOk(i, t, u)
  \/ \E i \in inflight : V_CallbackFail(i)
  \/ \E i \in inflight, u \in Users : V_ExistingOk(i, u)
  \/ \E i \in inflight : V_ExistingFail(i)
  \/ V_Login
  \/ \E i \in inflight, a \in AuthUrls : V_LoginOk(i, a)
  \/ \E i \in inflight : V_LoginFail(i)
  \/ V_Logout
  \/ \E i \in inflight : V_LogoutOk(i)
  \/ \E i \in inflight : V_LogoutFail(i)
  \/ R_InitEffect
  \/ R_CallbackEffect
  \/ \E p \in RedirectProps : R_ChangePaths(p[1], p[2])
  \/ \E i \in inflight, u \in Users : R_DirectOk(i, u)
  \/ \E i \in inflight : R_DirectFail(i)
  \/ \E i \in inflight, t \in Tokens, u \in Users : R_CallbackOk(i, t, u)
  \/ \E i \in inflight : R_CallbackFail(i)
  \/ \E i \in inflight, u \in Users : R_ExistingOk(i, u)
  \/ \E i \in inflight : R_ExistingFail(i)
  \/ R_Login
  \/ \E i \in inflight, a \in AuthUrls : R_LoginOk(i, a)
  \/ \E i \in inflight : R_LoginFail(i)
  \/ R_Logout
  \/ \E i \in inflight : R_LogoutOk(i)
  \/ \E i \in inflight : R_LogoutFail(i)

Spec == Init /\ [][Next]_vars

(* --------------------- the event emitter on its own --------------------- *)

\* an emitter that has just been constructed, in a page that has not yet
\* created a client
ChannelInit ==
  /\ Init
  /\ kind = "vanilla"
  /\ store = Null
  /\ url = Location(StartPath, Null, Null, Null)

ChannelNext ==
  \/ \E e \in Topics, h \in Handlers : On(e, h) /\ UNCHANGED seenVars
  \/ \E e \in Topics, a \in ArgLists, throwing \in SUBSET Handlers :
       Emit(e, a, throwing) /\ UNCHANGED seenVars
  \/ \E e \in Topics \cup {Undefined} : Clear(e) /\ UNCHANGED seenVars
  \/ \E e \in Topics, h \in Handlers :
       Unsubscribe(e, h) /\ UNCHANGED seenVars

ChannelSpec == ChannelInit /\ [][ChannelNext]_vars

(* ------------------- VanillaAuthClient with listeners ------------------- *)

\* one invocation of a listener: the event, the callback and the value it
\* was called with, whether it was the immediate call of a subscription
\* ("subscribe") or a call made by emit ("emit"), whether the callback
\* threw, and what the getters and the token store held at that moment
Note(event, callback, value, during, threw, m) ==
  [event |-> event, callback |-> callback, value |-> value, during |-> during,
   threw |-> threw, user |-> m.user, isLoading |-> m.isLoading,
   error |-> m.error, store |-> m.store]

\* the fields of the client and the page as a handler starts to run: notes
\* collects the listener invocations, exc tells that an exception is on its way
Now ==
  [user |-> user, isLoading |-> isLoading, error |-> error, store |-> store,
   url |-> url, navigated |-> navigated, falls |-> loadFalls,
   notes |-> <<>>, exc |-> FALSE]

\* the registrations in place, as <<event, callback>>
Subscriptions ==
  {p \in ClientTopics \X Handlers :
     \E j \in DOMAIN Registered(p[1]) : Registered(p[1])[j] = p[2]}

\* this.events.emit(event, value) inside a handler: the callbacks are called
\* in order; the exception of one that throws leaves emit
Notify(m, event, value, throwing) ==
  LET calls == ForEach(Registered(event), <<value>>,
                       {cb \in Handlers : <<event, cb>> \in throwing})
  IN [m EXCEPT
        !.notes = @ \o [j \in 1 .. Len(calls) |->
                          Note(event, calls[j].callback, value, "emit",
                               <<event, calls[j].callback>> \in throwing, m)],
        !.exc = /\ Len(calls) > 0
                /\ <<event, calls[Len(calls)].callback>> \in throwing]

\* the statements of the handlers
DoSetUser(v) == [k |-> "setUser", v |-> v]
DoSetLoading(v) == [k |-> "setLoading", v |-> v]
DoSetError(v) == [k |-> "setError", v |-> v]
DoSetItem(v) == [k |-> "setItem", v |-> v]
DoRemoveItem == [k |-> "removeItem", v |-> Null]
DoReplaceState == [k |-> "replaceState", v |-> Null]
DoHref(v) == [k |-> "href", v |-> v]

\* setUser, setLoading and setError emitting before they assign
StepPublishFirst(s, m, throwing) ==
  CASE s.k = "setUser" ->
         [Notify(m, AuthStateChanged, s.v, throwing) EXCEPT !.user = s.v]
    [] s.k = "setLoading" ->
         [Notify(m, LoadingStateChanged, s.v, throwing) EXCEPT
            !.isLoading = s.v,
            !.falls = IF m.isLoading /\ ~s.v THEN @ + 1 ELSE @]
    [] s.k = "setError" ->
         IF Truthy(s.v)
         THEN [Notify(m, ErrorEvent, s.v, throwing) EXCEPT !.error = s.v]
         ELSE [m EXCEPT !.error = s.v]
    [] s.k = "setItem" -> [m EXCEPT !.store = s.v]
    [] s.k = "removeItem" -> [m EXCEPT !.store = Null]
    [] s.k = "replaceState" -> [m EXCEPT !.url = ReplaceState(m.url.path)]
    [] s.k = "href" -> [m EXCEPT !.navigated = s.v]

\* setError emitting whatever it is given, null included
StepEmitsEveryError(s, m, throwing) ==
  CASE s.k = "setUser" ->
         Notify([m EXCEPT !.user = s.v], AuthStateChanged, s.v, throwing)
    [] s.k = "setLoading" ->
         Notify([m EXCEPT !.isLoading = s.v,
                          !.falls = IF m.isLoading /\ ~s.v THEN @ + 1 ELSE @],
                LoadingStateChanged, s.v, throwing)
    [] s.k = "setError" ->
         Notify([m EXCEPT !.error = s.v], ErrorEvent, s.v, throwing)
    [] s.k = "setItem" -> [m EXCEPT !.store = s.v]
    [] s.k = "removeItem" -> [m EXCEPT !.store = Null]
    [] s.k = "replaceState" -> [m EXCEPT !.url = ReplaceState(m.url.path)]
    [] s.k = "href" -> [m EXCEPT !.navigated = s.v]

\* one statement: setUser and setLoading assign and emit, setError assigns
\* and emits a truthy error, the others write localStorage or the location
Step(s, m, throwing) ==
  CASE s.k = "setUser" ->
         Notify([m EXCEPT !.user = s.v], AuthStateChanged, s.v, throwing)
    [] s.k = "setLoading" ->
         Notify([m EXCEPT !.isLoading = s.v,
                          !.falls = IF m.isLoading /\ ~s.v THEN @ + 1 ELSE @],
                LoadingStateChanged, s.v, throwing)
    [] s.k = "setError" ->
         IF Truthy(s.v)
         THEN Notify([m EXCEPT !.error = s.v], ErrorEvent, s.v, throwing)
         ELSE [m EXCEPT !.error = s.v]
    [] s.k = "setItem" -> [m EXCEPT !.store = s.v]
    [] s.k = "removeItem" -> [m EXCEPT !.store = Null]
    [] s.k = "replaceState" -> [m EXCEPT !.url = ReplaceState(m.url.path)]
    [] s.k = "href" -> [m EXCEPT !.navigated = s.v]

\* statements in sequence, up to the first one an exception leaves
RECURSIVE Exec(_, _, _)
Exec(stmts, m, throwing) ==
  IF Len(stmts) = 0 \/ m.exc
  THEN m
  ELSE Exec(Tail(stmts), Step(Head(stmts), m, throwing), throwing)

\* try { body } catch { handler } finally { last }, entered with m.exc set
\* when the awaited call rejected: an exception in body runs handler, last
\* runs in every case, and an exception of handler or of last leaves
TryCatchFinally(m, body, handler, last, throwing) ==
  LET tried == Exec(body, m, throwing)
      caught == IF tried.exc
                THEN Exec(handler, [tried EXCEPT !.exc = FALSE], throwing)
                ELSE tried
      done == Exec(last, [caught EXCEPT !.exc = FALSE], throwing)
  IN [done EXCEPT !.exc = done.exc \/ caught.exc]

\* initialize awaits the flow inside its try: a flow that rejects lands in
\* the catch block of initialize
Initialize(m, throwing) ==
  IF m.exc
  THEN Exec(<<DoSetError(ErrInit), DoSetLoading(FALSE)>>,
            [m EXCEPT !.exc = FALSE], throwing)
  ELSE m

\* the handler has run: the fields and the page are as it left them
Becomes(m) ==
  /\ user' = m.user
  /\ isLoading' = m.isLoading
  /\ error' = m.error
  /\ store' = m.store
  /\ url' = m.url
  /\ navigated' = m.navigated
  /\ loadFalls' = m.falls
  /\ notified' = m.notes

\* the step is none of the page's listener calls; their count stays
NoCallNow == PageCall(lastCall.n, Null, Null, Null, FALSE)

\* how an async function that ran to its end left off
Settled(m) == IF m.exc THEN "rejected" ELSE "fulfilled"

\* the continuation of the function that awaited request i, with the
\* listeners in place
L_Settle(i, flow, act, u, t, a, m) ==
  /\ Pending(i, "vanilla", flow)
  /\ Answered(i)
  /\ Becomes(m)
  /\ lastEv' = Ev(act, i, u, t, a, Settled(m))
  /\ lastCall' = NoCallNow
  /\ UNCHANGED <<created, apiClient, lp, up, effectDue, run, opCalls, reruns,
                 envVars, rerunFrom, chanVars, cleared, hook>>

\* the awaited call resolved (rejected = FALSE) or rejected
Awaited(rejected) == [Now EXCEPT !.exc = rejected]

\* handleDirectToken after the await
L_DirectOk(i, u, throwing) ==
  L_Settle(i, "direct", "direct_ok", u, Null, Null,
    Initialize(TryCatchFinally(Awaited(FALSE),
                 <<DoSetUser(u), DoReplaceState>>,
                 <<DoSetError(ErrAuthRetry), DoRemoveItem>>,
                 <<DoSetLoading(FALSE)>>, throwing), throwing))

L_DirectFail(i, throwing) ==
  L_Settle(i, "direct", "direct_fail", Null, Null, Null,
    Initialize(TryCatchFinally(Awaited(TRUE),
                 <<>>,
                 <<DoSetError(ErrAuthRetry), DoRemoveItem>>,
                 <<DoSetLoading(FALSE)>>, throwing), throwing))

\* handleCallback after the await
L_CallbackOk(i, t, u, throwing) ==
  L_Settle(i, "code", "callback_ok", u, t, Null,
    Initialize(TryCatchFinally(Awaited(FALSE),
                 <<DoSetItem(t), DoSetUser(u), DoReplaceState>>,
                 <<DoSetError(ErrAuthRetry), DoRemoveItem>>,
                 <<DoSetLoading(FALSE)>>, throwing), throwing))

L_CallbackFail(i, throwing) ==
  L_Settle(i, "code", "callback_fail", Null, Null, Null,
    Initialize(TryCatchFinally(Awaited(TRUE),
                 <<>>,
                 <<DoSetError(ErrAuthRetry), DoRemoveItem>>,
                 <<DoSetLoading(FALSE)>>, throwing), throwing))

\* checkExistingAuth after the await
L_ExistingOk(i, u, throwing) ==
  L_Settle(i, "stored", "existing_ok", u, Null, Null,
    Initialize(TryCatchFinally(Awaited(FALSE),
                 <<DoSetUser(u)>>,
                 <<DoRemoveItem, DoSetError(ErrAuthLogin)>>,
                 <<DoSetLoading(FALSE)>>, throwing), throwing))

L_ExistingFail(i, throwing) ==
  L_Settle(i, "stored", "existing_fail", Null, Null, Null,
    Initialize(TryCatchFinally(Awaited(TRUE),
                 <<>>,
                 <<DoRemoveItem, DoSetError(ErrAuthLogin)>>,
                 <<DoSetLoading(FALSE)>>, throwing), throwing))

\* login() after the await
L_LoginOk(i, authUrl, throwing) ==
  L_Settle(i, "login", "login_ok", Null, Null, authUrl,
    TryCatchFinally(Awaited(FALSE),
      <<DoHref(authUrl)>>,
      <<DoSetError(ErrLogin), DoSetLoading(FALSE)>>,
      <<>>, throwing))

L_LoginFail(i, throwing) ==
  L_Settle(i, "login", "login_fail", Null, Null, Null,
    TryCatchFinally(Awaited(TRUE),
      <<>>,
      <<DoSetError(ErrLogin), DoSetLoading(FALSE)>>,
      <<>>, throwing))

\* logout() after the await
L_LogoutOk(i, throwing) ==
  L_Settle(i, "logout", "logout_ok", Null, Null, Null,
    TryCatchFinally(Awaited(FALSE),
      <<DoRemoveItem, DoSetUser(Null)>>,
      <<DoSetError(ErrLogout)>>,
      <<DoSetLoading(FALSE)>>, throwing))

L_LogoutFail(i, throwing) ==
  L_Settle(i, "logout", "logout_fail", Null, Null, Null,
    TryCatchFinally(Awaited(TRUE),
      <<>>,
      <<DoSetError(ErrLogout)>>,
      <<DoSetLoading(FALSE)>>, throwing))

\* the calls the page may still make of the client's public methods
PageBudget == opCalls + lastCall.n < MaxCalls

\* login() or logout() up to its await, with the listeners in place: the
\* guard for a missing apiClient, then setLoading(true) and setError(null)
\* ahead of the try block, then the request
L_Start(act, guardAct, req, throwing) ==
  /\ MayCall("vanilla")
  /\ PageBudget
  /\ LET m == IF apiClient
              THEN Exec(<<DoSetLoading(TRUE), DoSetError(Null)>>, Now, throwing)
              ELSE Exec(<<DoSetError(ErrNotInitialized)>>, Now, throwing)
     IN /\ Becomes(m)
        /\ IF apiClient /\ ~m.exc
           THEN /\ Send(req)
                /\ lastEv' = Ev(act, Len(sent) + 1, Null, Null, Null, "pending")
           ELSE /\ NoSend
                /\ lastEv' = Ev(IF apiClient THEN act ELSE guardAct, 0,
                                Null, Null, Null, Settled(m))
  /\ lastCall' = NoCallNow
  /\ UNCHANGED <<created, apiClient, lp, up, effectDue, run, reruns, envVars,
                 rerunFrom, chanVars, cleared, hook>>

L_Login(throwing) ==
  L_Start("login", "login_guard",
          Request("login", "login", 0, store, Null, Null,
                  LoginBody(GetRedirectUri), Null, Null),
          throwing)

L_Logout(throwing) ==
  L_Start("logout", "logout_guard",
          Request("logout", "logout", 0, store, Null, Null, Null, Null, Null),
          throwing)

\* the page holds a client and may call its listener methods
MayListen ==
  /\ OnPage
  /\ kind = "vanilla"
  /\ created
  /\ PageBudget

\* onAuthStateChanged / onLoadingStateChanged: the callback is called with
\* the current value, then registered; an exception of that call leaves the
\* method before the registration
L_Subscribe(method, event, value, callback, throws) ==
  /\ MayListen
  /\ notified' = <<Note(event, callback, value, "subscribe", throws, Now)>>
  /\ lastCall' = PageCall(lastCall.n + 1, method, event, callback, throws)
  /\ IF throws
     THEN UNCHANGED <<authVars, chanVars, cleared>>
     ELSE /\ On(event, callback)
          /\ cleared' = cleared \ {<<event, callback>>}
  /\ UNCHANGED hook

L_onAuthStateChanged(callback, throws) ==
  L_Subscribe("onAuthStateChanged", AuthStateChanged, user, callback, throws)

L_onLoadingStateChanged(callback, throws) ==
  L_Subscribe("onLoadingStateChanged", LoadingStateChanged, isLoading,
              callback, throws)

\* onError: the callback is registered, and not called
L_onError(callback) ==
  /\ MayListen
  /\ On(ErrorEvent, callback)
  /\ notified' = <<>>
  /\ lastCall' = PageCall(lastCall.n + 1, "onError", ErrorEvent, callback, FALSE)
  /\ cleared' = cleared \ {<<ErrorEvent, callback>>}
  /\ UNCHANGED hook

\* the page calls an unsubscribe function one of the three methods returned
L_unsubscribe(event, callback) ==
  /\ MayListen
  /\ Unsubscribe(event, callback)
  /\ notified' = <<>>
  /\ lastCall' = PageCall(lastCall.n + 1, "unsubscribe", event, callback,
                          event \notin DOMAIN events)
  /\ UNCHANGED <<cleared, hook>>

\* destroy() clearing the error listeners only
L_destroyErrorsOnly ==
  /\ MayListen
  /\ Clear(ErrorEvent)
  /\ notified' = <<>>
  /\ cleared' = cleared \cup Subscriptions
  /\ lastCall' = PageCall(lastCall.n + 1, "destroy", Null, Null, FALSE)
  /\ UNCHANGED hook

\* destroy(): this.events.clear()
L_destroy ==
  /\ MayListen
  /\ Clear(Undefined)
  /\ notified' = <<>>
  /\ cleared' = cleared \cup Subscriptions
  /\ lastCall' = PageCall(lastCall.n + 1, "destroy", Null, Null, FALSE)
  /\ UNCHANGED hook

\* the getters
getCurrentUser == user
isAuthLoading == isLoading
getError == error

\* the URLs a page that listens is opened with: a token, a code, both or
\* neither
ListenerUrls ==
  {l \in StartUrls : l.token # Empty /\ l.code # Empty /\ l.state = Null}

\* a page that creates a VanillaAuthClient and listens to it
ListenerInit ==
  /\ Init
  /\ kind = "vanilla"
  /\ url \in ListenerUrls

ListenerNext ==
  \/ V_Construct
  \/ \E i \in inflight, u \in Users, throwing \in SUBSET Subscriptions :
       L_DirectOk(i, u, throwing)
  \/ \E i \in inflight, throwing \in SUBSET Subscriptions :
       L_DirectFail(i, throwing)
  \/ \E i \in inflight, t \in Tokens, u \in Users, throwing \in SUBSET Subscriptions :
       L_CallbackOk(i, t, u, throwing)
  \/ \E i \in inflight, throwing \in SUBSET Subscriptions :
       L_CallbackFail(i, throwing)
  \/ \E i \in inflight, u \in Users, throwing \in SUBSET Subscriptions :
       L_ExistingOk(i, u, throwing)
  \/ \E i \in inflight, throwing \in SUBSET Subscriptions :
       L_ExistingFail(i, throwing)
  \/ \E throwing \in SUBSET Subscriptions : L_Login(throwing)
  \/ \E i \in inflight, a \in AuthUrls, throwing \in SUBSET Subscriptions :
       L_LoginOk(i, a, throwing)
  \/ \E i \in inflight, throwing \in SUBSET Subscriptions :
       L_LoginFail(i, throwing)
  \/ \E throwing \in SUBSET Subscriptions : L_Logout(throwing)
  \/ \E i \in inflight, throwing \in SUBSET Subscriptions :
       L_LogoutOk(i, throwing)
  \/ \E i \in inflight, throwing \in SUBSET Subscriptions :
       L_LogoutFail(i, throwing)
  \/ \E h \in Handlers, throws \in BOOLEAN : L_onAuthStateChanged(h, throws)
  \/ \E h \in Handlers, throws \in BOOLEAN : L_onLoadingStateChanged(h, throws)
  \/ \E h \in Handlers : L_onError(h)
  \/ \E e \in ClientTopics, h \in Handlers : L_unsubscribe(e, h)
  \/ L_destroy

ListenerSpec == ListenerInit /\ [][ListenerNext]_vars

(* ------------------------- ApiClient on its own ------------------------- *)

\* the request interceptor applied to the configuration a method passes to
\* axios: a stored token replaces whatever Authorization the method set
Intercept(config, st) ==
  [op |-> config.op, flow |-> config.flow, run |-> config.run,
   auth |-> IF Truthy(st) THEN st ELSE config.auth,
   code |-> config.code, state |-> config.state, redirect |-> config.redirect,
   okPath |-> config.okPath, failPath |-> config.failPath]

\* the configuration an ApiClient method hands to axios, before the
\* interceptor: the endpoint, the body, and the Authorization header the
\* method itself sets, if any
Config(op, authorization, code, state, redirect) ==
  [op |-> op, flow |-> "api", run |-> 0, auth |-> authorization,
   code |-> code, state |-> state, redirect |-> redirect,
   okPath |-> Null, failPath |-> Null]

\* the redirect URIs a page passes to ApiClient.login
RedirectUris == {Undefined, Origin \o StartPath}

\* a page that holds no client yet; localStorage may hold a token
ApiInit ==
  /\ Init
  /\ kind = "vanilla"
  /\ url = Location(StartPath, Null, Null, Null)

\* what ApiClient and the page's use of localStorage leave alone
ApiFrame ==
  UNCHANGED <<kind, created, user, isLoading, error, url, navigated, lp, up,
              effectDue, run, opCalls, reruns, loadFalls, url0, store0,
              rerunFrom, chanVars, seenVars>>

\* createApiClient({baseUrl}): the axios instance and its interceptor exist
A_createApiClient ==
  /\ ~apiClient
  /\ apiClient' = TRUE
  /\ lastEv' = Ev("api_create", 0, Null, Null, Null, "fulfilled")
  /\ UNCHANGED <<store, sent, inflight>>
  /\ ApiFrame

\* the page writes or removes the token in localStorage
A_setItem(token) ==
  /\ store # token
  /\ store' = token
  /\ lastEv' = Ev("api_store", 0, Null, token, Null, Null)
  /\ UNCHANGED <<apiClient, sent, inflight>>
  /\ ApiFrame

\* a method of ApiClient up to its await: the request leaves as the
\* interceptor made it
A_Call(act, token, config) ==
  /\ apiClient
  /\ Len(sent) < MaxCalls
  /\ Send(Intercept(config, store))
  /\ lastEv' = Ev(act, Len(sent) + 1, Null, token, Null, "pending")
  /\ UNCHANGED <<apiClient, store>>
  /\ ApiFrame

\* ApiClient.login(redirectUri)
A_login(redirectUri) ==
  A_Call("api_login", Null, Config("login", Null, Null, Null, LoginBody(redirectUri)))

\* ApiClient.handleCallback(code, state)
A_handleCallback(code, state) ==
  A_Call("api_handleCallback", Null, Config("callback", Null, code, state, Null))

\* ApiClient.logout()
A_logout ==
  A_Call("api_logout", Null, Config("logout", Null, Null, Null, Null))

\* ApiClient.verifyToken(token): the method sets Authorization to its argument
A_verifyToken(token) ==
  A_Call("api_verifyToken", token, Config("verify", token, Null, Null, Null))

\* ApiClient.getCurrentUser()
A_getCurrentUser ==
  A_Call("api_getCurrentUser", Null, Config("verify", Null, Null, Null, Null))

\* the answer to request i: the method returns response.data, or logs and
\* rethrows the error
A_Return(i, ok) ==
  /\ i \in inflight
  /\ sent[i].flow = "api"
  /\ Answered(i)
  /\ lastEv' = Ev("api_return", i, Null, Null, Null,
                  IF ok THEN "fulfilled" ELSE "rejected")
  /\ UNCHANGED <<apiClient, store>>
  /\ ApiFrame

ApiNext ==
  \/ A_createApiClient
  \/ \E t \in Tokens \cup {Null} : A_setItem(t)
  \/ \E r \in RedirectUris : A_login(r)
  \/ \E c \in Codes, s \in States \cup {Undefined} : A_handleCallback(c, s)
  \/ A_logout
  \/ \E t \in Tokens : A_verifyToken(t)
  \/ A_getCurrentUser
  \/ \E i \in inflight, ok \in BOOLEAN : A_Return(i, ok)

ApiSpec == ApiInit /\ [][ApiNext]_vars

(* --------------------- components of a React page ---------------------- *)

\* what AuthProvider returns from a render: the LoadingComponent when one
\* was supplied and isLoading is true, its children inside
\* AuthContext.Provider otherwise
AuthProviderRender(LoadingComponent) ==
  IF isLoading /\ LoadingComponent THEN "LoadingComponent" ELSE "children"

\* the message of the error useAuth throws
ErrUseAuth == "useAuth must be used within an AuthProvider"

\* the default value AuthContext is created with: a signed-out, loading
\* state whose login and logout do nothing
DefaultContext ==
  [defined |-> TRUE, user |-> Null, isLoading |-> TRUE, error |-> Null,
   login |-> "noop", logout |-> "noop"]

\* the value AuthProvider passes to AuthContext.Provider
ProviderValue ==
  [defined |-> TRUE, user |-> user, isLoading |-> isLoading, error |-> error,
   login |-> "login", logout |-> "logout"]

\* useContext(AuthContext): the value of the nearest AuthContext.Provider
\* above the component, or the context's default value when there is none
UseContext(inside) == IF inside THEN ProviderValue ELSE DefaultContext

\* useAuth() in a component rendered below the AuthProvider (inside) or
\* somewhere else in the page
UseAuth(inside) ==
  /\ kind = "react"
  /\ OnPage
  /\ LET context == UseContext(inside) IN
       hook' = [called |-> TRUE, inside |-> inside, context |-> context,
                threw |-> ~context.defined,
                message |-> IF ~context.defined THEN ErrUseAuth ELSE Null]
  /\ lastEv' = Ev("useAuth", 0, Null, Null, Null, Null)
  /\ UNCHANGED <<kind, created, apiClient, user, isLoading, error, store, url,
                 navigated, lp, up, effectDue, sent, inflight, run, opCalls,
                 reruns, loadFalls, url0, store0, rerunFrom, chanVars,
                 notified, cleared, lastCall>>

\* an AuthProvider and the components of its page, with fixed props
RenderNext ==
  \/ R_InitEffect
  \/ R_CallbackEffect
  \/ \E i \in inflight, u \in Users : R_DirectOk(i, u)
  \/ \E i \in inflight : R_DirectFail(i)
  \/ \E i \in inflight, t \in Tokens, u \in Users : R_CallbackOk(i, t, u)
  \/ \E i \in inflight : R_CallbackFail(i)
  \/ \E i \in inflight, u \in Users : R_ExistingOk(i, u)
  \/ \E i \in inflight : R_ExistingFail(i)
  \/ R_Login
  \/ \E i \in inflight, a \in AuthUrls : R_LoginOk(i, a)
  \/ \E i \in inflight : R_LoginFail(i)
  \/ R_Logout
  \/ \E i \in inflight : R_LogoutOk(i)
  \/ \E i \in inflight : R_LogoutFail(i)
  \/ \E inside \in BOOLEAN : UseAuth(inside)

\* a page that is about to render an AuthProvider
RenderInit == Init /\ kind = "react"

RenderSpec == RenderInit /\ [][RenderNext]_vars

(* ------------------------------ fairness ------------------------------- *)

\* the backend answers request i of the initialization, with success or
\* with failure, and the continuation of the function that awaited it runs
InitAnswer(i) ==
  \/ \E u \in Users : V_DirectOk(i, u)
  \/ V_DirectFail(i)
  \/ \E t \in Tokens, u \in Users : V_CallbackOk(i, t, u)
  \/ V_CallbackFail(i)
  \/ \E u \in Users : V_ExistingOk(i, u)
  \/ V_ExistingFail(i)
  \/ \E u \in Users : R_DirectOk(i, u)
  \/ R_DirectFail(i)
  \/ \E t \in Tokens, u \in Users : R_CallbackOk(i, t, u)
  \/ R_CallbackFail(i)
  \/ \E u \in Users : R_ExistingOk(i, u)
  \/ R_ExistingFail(i)

\* the requests one client can issue: one per run of the initialization and
\* one per call of login() or logout()
RequestIds == 1 .. (MaxCalls + 1)

\* the initialization protocol on its own: the page constructs the client
\* (or mounts the provider, and re-renders it with other redirect paths) and
\* calls neither login() nor logout()
InitializationNext ==
  \/ V_Construct
  \/ R_InitEffect
  \/ R_CallbackEffect
  \/ \E p \in RedirectProps : R_ChangePaths(p[1], p[2])
  \/ \E i \in inflight : InitAnswer(i)

\* ... where the page does construct the client, React runs the effects it
\* has scheduled, and every backend request is eventually answered
SpecLive ==
  /\ Init
  /\ [][InitializationNext]_vars
  /\ WF_vars(V_Construct)
  /\ WF_vars(R_InitEffect)
  /\ WF_vars(R_CallbackEffect)
  /\ \A i \in RequestIds : WF_vars(InitAnswer(i))

TypeOK ==
  /\ kind \in {"vanilla", "react"}
  /\ user \in Users \cup {Null}
  /\ store \in Tokens \cup {Null}
  /\ isLoading \in BOOLEAN
  /\ inflight \subseteq DOMAIN sent
  /\ DOMAIN events \subseteq Topics \cup ClientTopics
  /\ \A e \in DOMAIN events :
       /\ Len(events[e]) <= MaxHandlers
       /\ \A j \in 1 .. Len(events[e]) : events[e][j] \in Handlers
  /\ unsubscribers \subseteq (Topics \cup ClientTopics) \X Handlers
  /\ chanEv.op \in {"new", "on", "emit", "clear", "unsubscribe"}
  /\ \A j \in DOMAIN notified :
       /\ notified[j].event \in ClientTopics
       /\ notified[j].callback \in Handlers
       /\ notified[j].during \in {"subscribe", "emit"}
  /\ cleared \subseteq ClientTopics \X Handlers
  /\ lastCall.n \in 0 .. MaxCalls
  /\ hook.called \in BOOLEAN


(* ------------------------------- claims -------------------------------- *)

\* the step taken last ran the named piece of code
Just(act) == lastEv.act = act

\* the request the last step issued or answered
LastRequest == sent[lastEv.id]

\* the requests issued by run r of the initialization protocol
RequestsOfRun(r) == {i \in DOMAIN sent : sent[i].run = r}

\* C1: logout() always ends with user == null and no stored token, whether
\* the backend logout call succeeds or fails; a failure is recorded in error.
C1_LogoutAlwaysClears ==
  /\ (Just("logout_ok") \/ Just("logout_fail")) => (user = Null /\ store = Null)
  /\ Just("logout_fail") => error # Null

\* C2: vanilla client, direct-token flow: initialization stores the URL's
\* token, issues the verification call exactly once, and once it has settled
\* the page URL has no token parameter, on success and on failure.
C2_VanillaDirectTokenStripped ==
  kind = "vanilla" =>
    /\ Just("start_direct") =>
         /\ store = url0.token
         /\ LastRequest.op = "verify"
    /\ (Just("direct_ok") \/ Just("direct_fail")) =>
         /\ url.token = Null
         /\ Cardinality(RequestsOfRun(LastRequest.run)) = 1

\* C3: React provider, direct-token flow, one run of the effect: the URL's
\* token is stored, verification is called exactly once, the URL is replaced
\* with loginRedirectPath while the verification is still in flight, and the
\* URL ends as loginRedirectPath on success and unauthorizedRedirectPath on
\* failure, never with a token parameter.
C3_ReactDirectToken ==
  kind = "react" =>
    /\ Just("start_direct") =>
         /\ store = url0.token
         /\ LastRequest.op = "verify"
         /\ LastRequest.okPath = lp
         /\ LastRequest.failPath = up
         /\ lastEv.id \in inflight
    /\ \A i \in inflight :
         sent[i].flow = "direct" => url = Location(sent[i].okPath, Null, Null, Null)
    /\ Just("direct_ok") => url = Location(LastRequest.okPath, Null, Null, Null)
    /\ Just("direct_fail") => url = Location(LastRequest.failPath, Null, Null, Null)
    /\ (Just("start_direct") \/ Just("direct_ok") \/ Just("direct_fail")) =>
         Cardinality(RequestsOfRun(LastRequest.run)) = 1

\* a state in which the React direct-token flow has failed
C3_Witness ==
  /\ kind = "react"
  /\ Just("direct_fail")
  /\ url.path = DefaultUnauthorizedRedirectPath

\* C4: React provider, code flow: the exchange is called exactly once per run
\* with the URL's code and state; on success the returned token is stored,
\* user is the returned user and the URL is replaced with loginRedirectPath;
\* on failure the token store is emptied, error is set and the URL is
\* replaced with unauthorizedRedirectPath.
C4_ReactCodeFlow ==
  kind = "react" =>
    /\ Just("start_code") =>
         /\ LastRequest.op = "callback"
         /\ LastRequest.code = url0.code
         /\ Truthy(url0.state) => LastRequest.state = url0.state
         /\ LastRequest.okPath = lp
         /\ LastRequest.failPath = up
    /\ (Just("start_code") \/ Just("callback_ok") \/ Just("callback_fail")) =>
         Cardinality(RequestsOfRun(LastRequest.run)) = 1
    /\ Just("callback_ok") =>
         /\ store = lastEv.token
         /\ user = lastEv.user
         /\ url = Location(LastRequest.okPath, Null, Null, Null)
    /\ Just("callback_fail") =>
         /\ store = Null
         /\ error # Null
         /\ url = Location(LastRequest.failPath, Null, Null, Null)

\* a state in which the React code exchange has failed while a token was stored
\* before the flow
C4_Witness ==
  /\ kind = "react"
  /\ Just("callback_fail")
  /\ Truthy(store0)
  /\ Truthy(url0.state)

\* C5: vanilla client, code flow: once initialization with code (and optional
\* state) has settled, the page URL has neither code nor state, on success
\* and on failure.
C5_VanillaCodeStripped ==
  (kind = "vanilla" /\ (Just("callback_ok") \/ Just("callback_fail"))) =>
    (url.code = Null /\ url.state = Null)

\* C6: initialization runs exactly one flow, in the order token > code >
\* stored token: with a non-empty token only the verification of the direct
\* flow is issued, else with a non-empty code only the exchange, else only
\* the stored-token check (a verification when a token is stored, nothing
\* otherwise).
C6_FlowPriority ==
  /\ Just("start_direct") => (Truthy(url0.token) /\ LastRequest.run = 1)
  /\ Just("start_code") => (~Truthy(url.token) /\ Truthy(url.code))
  /\ (Just("start_stored") \/ Just("settled_anonymous")) =>
       (~Truthy(url.token) /\ ~Truthy(url.code))
  /\ \A r \in 1..run : Cardinality(RequestsOfRun(r)) <= 1
  /\ (apiClient /\ run >= 1) =>
       /\ Truthy(url0.token) =>
            \E i \in RequestsOfRun(1) : sent[i].op = "verify" /\ sent[i].flow = "direct"
       /\ (~Truthy(url0.token) /\ Truthy(url0.code)) =>
            \E i \in RequestsOfRun(1) : sent[i].op = "callback"
       /\ (~Truthy(url0.token) /\ ~Truthy(url0.code)) =>
            /\ \A i \in RequestsOfRun(1) : sent[i].op = "verify" /\ sent[i].flow = "stored"
            /\ RequestsOfRun(1) # {} <=> store0 # Null

\* a state in which a URL with both token and code has been handled
C6_Witness ==
  /\ Truthy(url0.token)
  /\ Truthy(url0.code)
  /\ Just("direct_ok")

\* C7: first initialization, no callback parameters, a stored token the
\* backend accepts, nothing else called meanwhile: the state settles to user =
\* the UserData returned, isLoading = false, error = null, the token stays
\* stored, and isLoading has fallen from true to false exactly once.
C7_StoredTokenAccepted ==
  (Just("existing_ok") /\ run = 1 /\ opCalls = 0 /\ reruns = 0) =>
    /\ user = lastEv.user
    /\ user \in Users
    /\ ~isLoading
    /\ error = Null
    /\ store = store0
    /\ Truthy(store)
    /\ loadFalls = 1

\* a state in which the first stored-token check has succeeded
C7_Witness ==
  /\ Just("existing_ok")
  /\ run = 1
  /\ opCalls = 0
  /\ reruns = 0
  /\ user = "u2"

\* C8: first initialization, no callback parameters, a stored token the
\* backend rejects: the state settles to user = null, isLoading = false,
\* error non-null, and the token store is empty.
C8_StoredTokenRejected ==
  (Just("existing_fail") /\ run = 1) =>
    /\ user = Null
    /\ ~isLoading
    /\ error # Null
    /\ store = Null

\* a state in which the first stored-token check has failed
C8_Witness ==
  /\ Just("existing_fail")
  /\ run = 1
  /\ Truthy(store0)

\* the page was opened without callback parameters
NoCallback(l) == ~Truthy(l.token) /\ ~Truthy(l.code)

\* the first initialization has run with an API client, and the page has
\* called nothing since
InitializedOnly == apiClient /\ run = 1 /\ opCalls = 0 /\ reruns = 0

\* C9: initialization with no callback parameters and nothing stored settles
\* at once as anonymous: user = null, isLoading = false, error = null, and no
\* backend call is issued.
C9_NoTokenAnonymous ==
  (InitializedOnly /\ NoCallback(url0) /\ store0 = Null) =>
    /\ Just("settled_anonymous")
    /\ user = Null
    /\ ~isLoading
    /\ error = Null
    /\ sent = <<>>
    /\ inflight = {}

\* a state in which the first initialization found nothing to check
C9_Witness ==
  /\ InitializedOnly
  /\ NoCallback(url0)
  /\ store0 = Null
  /\ url0.token = Empty
  /\ ~isLoading

\* C10: isLoading is true whenever a backend request issued by the client is
\* in flight.
C10_LoadingWhileInflight == inflight # {} => isLoading

\* the steps that handle a failed backend call
FailureActs ==
  {"direct_fail", "callback_fail", "existing_fail", "login_fail", "logout_fail"}

AuthFailureActs == {"direct_fail", "callback_fail", "existing_fail"}

C13_FailedVerifyClearsUser ==
  (Just("existing_fail") \/ Just("direct_fail")) => user = Null

\* C14: login() whose login-url request fails: once the failure has been
\* handled error is non-null and isLoading is false, and neither the call of
\* login() nor the handling of the failure changes user, the token store or
\* the page URL, or navigates.
C14_LoginFailureFrame ==
  [][ /\ lastEv'.act \in {"login", "login_fail"} =>
           /\ user' = user
           /\ store' = store
           /\ url' = url
           /\ navigated' = Null
      /\ lastEv'.act = "login_fail" =>
           /\ error' # Null
           /\ ~isLoading' ]_vars

\* a signed-in client whose login() has just failed
C14_Witness ==
  /\ Just("login_fail")
  /\ LastRequest.op = "login"
  /\ user \in Users
  /\ store \in Tokens
  /\ error = ErrLogin
  /\ ~isLoading
  /\ navigated = Null

\* the steps of login() and logout() that found no API client
GuardActs == {"login_guard", "logout_guard"}

\* C16: login() and logout() called while the API client is absent set error
\* to the 'not initialized' message and return: no backend request is
\* issued, and user, isLoading and the token store are left as they were.
C16_GuardedWithoutClient ==
  [][ /\ (opCalls' # opCalls /\ ~apiClient) => lastEv'.act \in GuardActs
      /\ lastEv'.act \in GuardActs =>
           /\ ~apiClient
           /\ error' = ErrNotInitialized
           /\ lastEv'.promise = "fulfilled"
           /\ UNCHANGED <<user, isLoading, store, sent, inflight>> ]_vars

\* logout() has just returned from its guard on a page with a stored token
C16_Witness ==
  /\ Just("logout_guard")
  /\ ~apiClient
  /\ error = ErrNotInitialized
  /\ store \in Tokens
  /\ sent = <<>>

\* C17: when constructing the API client fails during initialization the
\* state settles to user = null, isLoading = false and the initialization
\* failure message; that instance never issues a backend request and leaves
\* the token store as it found it.
C17_ConstructionFailure ==
  (created /\ ~apiClient) =>
    /\ user = Null
    /\ ~isLoading
    /\ Just("init_failed") => error = ErrInit
    /\ error \in {ErrInit, ErrNotInitialized}
    /\ sent = <<>>
    /\ inflight = {}
    /\ store = store0

\* construction failed on a page with a stored token, and login() and
\* logout() have been called since
C17_Witness ==
  /\ created
  /\ ~apiClient
  /\ opCalls = MaxCalls
  /\ store0 \in Tokens
  /\ store = store0
  /\ sent = <<>>

\* the redirect URI login() asks for: the page origin in the React provider,
\* origin and path in the vanilla client
ExpectedRedirectUri ==
  IF kind = "react" THEN Origin ELSE Origin \o url.path

\* C15: login() that succeeds: the call sets isLoading = true and
\* error = null and requests the login URL with the client's redirect URI;
\* the answer makes the browser navigate to exactly the URL the backend
\* returned and changes nothing else (user, token store, isLoading, error and
\* the page URL stay as they were, so isLoading is still true when the answer
\* follows the call directly); after the navigation no step is taken.
C15_LoginSuccess ==
  [][ /\ navigated = Null
      /\ lastEv'.act = "login" =>
           /\ isLoading'
           /\ error' = Null
           /\ sent'[lastEv'.id].op = "login"
           /\ sent'[lastEv'.id].redirect = ExpectedRedirectUri
           /\ lastEv'.id \in inflight'
           /\ UNCHANGED <<user, store, url, navigated>>
      /\ lastEv'.act = "login_ok" =>
           /\ sent[lastEv'.id].op = "login"
           /\ lastEv'.authUrl \in AuthUrls
           /\ navigated' = lastEv'.authUrl
           /\ UNCHANGED <<user, store, isLoading, error, url>>
           /\ lastEv.act = "login" => isLoading' ]_vars

\* a signed-in vanilla client has navigated to the URL the backend returned,
\* which was not the first of the possible URLs
C15_Witness ==
  /\ Just("login_ok")
  /\ kind = "vanilla"
  /\ LastRequest.redirect = Origin \o StartPath
  /\ navigated \in AuthUrls \ {AuthUrl}
  /\ isLoading
  /\ error = Null
  /\ user \in Users
  /\ store \in Tokens

\* the steps in which the initialization settles without awaiting anything
SyncSettleActs == {"settled_anonymous", "init_failed"}

\* C18: when every backend request is eventually answered, every
\* initialization path (direct token, code exchange, stored token, no token,
\* construction failure, and each re-run) reaches isLoading = false; and
\* isLoading falls only in a step that handles the answer to a request or
\* settles the initialization synchronously, so while the request stays
\* unanswered nothing else (no timeout, no cancellation) ends the wait.
C18_InitializationSettles ==
  /\ isLoading ~> ~isLoading
  /\ [][ (isLoading /\ ~isLoading') =>
           \/ lastEv'.act \in SyncSettleActs
           \/ /\ lastEv'.id \in inflight
              /\ inflight' = inflight \ {lastEv'.id} ]_vars

\* the initialization awaited a request and has settled with isLoading false
C18_Witness ==
  /\ InitializedOnly
  /\ sent # <<>>
  /\ inflight = {}
  /\ lastEv.act \in AuthFailureActs \cup {"direct_ok", "callback_ok", "existing_ok"}
  /\ ~isLoading
  /\ loadFalls = 1

\* the callback effect has re-run from a settled state and the page has
\* called nothing and changed no prop since
RerunAlone ==
  /\ rerunFrom.settled
  /\ run >= 2
  /\ opCalls + reruns = rerunFrom.calls

\* the re-run has ended and the backend answered it as it had answered
\* before: nothing to verify, or the stored token accepted for the same user
RerunSameAnswer ==
  /\ inflight = {}
  /\ \/ Just("settled_anonymous")
     \/ /\ Just("existing_ok")
        /\ LastRequest.run = run
        /\ lastEv.user = rerunFrom.user

\* C19: re-running the initialization after it has settled (the React
\* callback effect after a change of its dependencies) issues no second code
\* exchange and no second direct-token verification, since the callback
\* parameters are gone from the URL, and with the backend answering as
\* before it ends in the same user, isLoading, error and token store.
C19_RerunIdempotent ==
  RerunAlone =>
    /\ \A i \in RequestsOfRun(run) :
         /\ sent[i].op = "verify"
         /\ sent[i].flow = "stored"
    /\ Cardinality(RequestsOfRun(run)) <= 1
    /\ RerunSameAnswer =>
         /\ user = rerunFrom.user
         /\ isLoading = rerunFrom.isLoading
         /\ error = rerunFrom.error
         /\ store = rerunFrom.store

\* the first run exchanged the URL's code for a token; the effect re-ran
\* after it had settled and verified the stored token for the same user
C19_Witness ==
  /\ RerunAlone
  /\ RerunSameAnswer
  /\ url0.code \in Codes
  /\ Just("existing_ok")
  /\ user \in Users
  /\ store \in Tokens
  /\ \E i \in RequestsOfRun(1) : sent[i].op = "callback"

RegisteredIn(ev, e) == IF e \in DOMAIN ev THEN ev[e] ELSE <<>>

\* a callback array without the registrations of one callback
Without(callbacks, callback) == SelectSeq(callbacks, LAMBDA cb : cb # callback)

C22_ClearRemoves ==
  [][ /\ chanEv'.op = "clear" =>
           IF Truthy(chanEv'.event)
           THEN /\ RegisteredIn(events', chanEv'.event) = <<>>
                /\ \A o \in Topics \ {chanEv'.event} :
                     RegisteredIn(events', o) = RegisteredIn(events, o)
           ELSE \A e \in Topics : RegisteredIn(events', e) = <<>>
      /\ (chanEv.op = "clear" /\ chanEv'.op = "emit") =>
           IF Truthy(chanEv.event) /\ chanEv.event # chanEv'.event
           THEN /\ chanEv'.calls # <<>> <=> Registered(chanEv'.event) # <<>>
                /\ ~chanEv'.threw =>
                     Len(chanEv'.calls) = Len(Registered(chanEv'.event))
           ELSE chanEv'.calls = <<>> ]_vars

\* clear("error") has removed the callbacks of "error", which had been
\* registered, and left the two of "authStateChanged"
C22_Witness ==
  /\ chanEv.op = "clear"
  /\ chanEv.event = "error"
  /\ <<"error", "h1">> \in unsubscribers
  /\ Registered("error") = <<>>
  /\ Registered("authStateChanged") = <<"h1", "h2">>

\* C23: when a callback of an event throws during emit, the callbacks
\* registered after it on that event are still invoked: every emit invokes
\* all the callbacks of its event.
C23_HandlersIsolated ==
  chanEv.op = "emit" => Len(chanEv.calls) = Len(Registered(chanEv.event))

\* C27: every request the clients issue carries the Authorization header of
\* the token that is in the token store when the request is sent, and no
\* Authorization header when the store is empty then; what is stored before
\* or after that moment does not matter.
C27_HeaderIsStoredToken ==
  [][ Len(sent') > Len(sent) =>
        /\ Len(sent') = Len(sent) + 1
        /\ sent'[Len(sent')].op \in {"login", "callback", "verify", "logout"}
        /\ sent'[Len(sent')].auth = (IF store' \in Tokens THEN store' ELSE Null)
        /\ \A i \in DOMAIN sent : sent'[i] = sent[i] ]_vars

\* one request went out without a header and a later one with the token
\* stored at its time, which is no longer the content of the store
C27_Witness ==
  \E i, j \in DOMAIN sent :
    /\ i < j
    /\ sent[i].auth = Null
    /\ sent[j].auth \in Tokens
    /\ sent[j].auth # store
    /\ sent[j].op = "logout"

\* C28: the request ApiClient.verifyToken(token) sends carries the token
\* of its argument in the Authorization header, whatever the token store
\* holds at the time.
C28_VerifyTokenSendsArgument ==
  lastEv.act = "api_verifyToken" => sent[lastEv.id].auth = lastEv.token

\* C29: useAuth() throws 'useAuth must be used within an AuthProvider' when
\* the calling component has no AuthProvider above it, and otherwise returns
\* the provider's user, isLoading, error, login and logout.
C29_UseAuthOutsideThrows ==
  Just("useAuth") =>
    IF hook.inside
    THEN ~hook.threw /\ hook.context = ProviderValue
    ELSE hook.threw /\ hook.message = ErrUseAuth

\* the invocations among notes of one callback for one event
NotesTo(notes, event, callback) ==
  SelectSeq(notes, LAMBDA n : n.event = event /\ n.callback = callback)

\* callback is registered for event
Listens(event, callback) == <<event, callback>> \in Subscriptions

\* the step is a call of the named listener method
Calls(method) == lastCall'.method = method

\* the step is one of the client's own: a call of login or logout, or the
\* continuation of a function after its await
ClientStep == lastCall'.method = Null

\* the subscription the step makes calls the callback exactly once, with value
CalledOnceWith(event, value) ==
  /\ Len(notified') = 1
  /\ notified'[1].event = event
  /\ notified'[1].callback = lastCall'.callback
  /\ notified'[1].value = value

\* the step called every callback registered for event, last with value
AllToldOf(event, value) ==
  \A cb \in Handlers :
    Listens(event, cb) =>
      LET told == NotesTo(notified', event, cb) IN
        Len(told) > 0 /\ told[Len(told)].value = value

\* C24: onAuthStateChanged(cb) and onLoadingStateChanged(cb) call cb exactly
\* once at subscription, with the current user or isLoading; afterwards
\* every change of the value calls each subscribed callback with the new
\* value, and only subscribed callbacks are called.
C24_ListenersFollowChanges ==
  [][ /\ Calls("onAuthStateChanged") => CalledOnceWith(AuthStateChanged, user)
      /\ Calls("onLoadingStateChanged") =>
            CalledOnceWith(LoadingStateChanged, isLoading)
      /\ ClientStep =>
            /\ user' # user => AllToldOf(AuthStateChanged, user')
            /\ isLoading' # isLoading => AllToldOf(LoadingStateChanged, isLoading')
            /\ \A j \in DOMAIN notified' :
                 Listens(notified'[j].event, notified'[j].callback) ]_vars

\* no listener invocation of the step threw
NoneThrew == \A j \in DOMAIN notified' : ~notified'[j].threw

\* C24 for the steps in which no listener throws
C24_QuietListenersFollowChanges ==
  [][ NoneThrew =>
      /\ Calls("onAuthStateChanged") => CalledOnceWith(AuthStateChanged, user)
      /\ Calls("onLoadingStateChanged") =>
            CalledOnceWith(LoadingStateChanged, isLoading)
      /\ ClientStep =>
            /\ user' # user => AllToldOf(AuthStateChanged, user')
            /\ isLoading' # isLoading => AllToldOf(LoadingStateChanged, isLoading')
            /\ \A j \in DOMAIN notified' :
                 Listens(notified'[j].event, notified'[j].callback) ]_vars

\* C25: onError(cb) calls cb once at subscription with the error the client
\* holds then, so that an error set before the subscription reaches a later
\* listener, and every later change of the error to a new message calls
\* each subscribed callback with it.
C25_ErrorListenerToldAtOnce ==
  [][ /\ (Calls("onError") /\ Truthy(error)) => CalledOnceWith(ErrorEvent, error)
      /\ (ClientStep /\ error' # error /\ Truthy(error')) =>
            AllToldOf(ErrorEvent, error') ]_vars

\* C25 without the call at subscription, for the steps in which no listener
\* throws
C25_QuietErrorListenerToldOfChanges ==
  [][ (NoneThrew /\ ClientStep /\ error' # error /\ Truthy(error')) =>
        AllToldOf(ErrorEvent, error') ]_vars

\* C26: after destroy() no callback that was registered when it ran is
\* called by a later step of the client, and destroy() leaves what the
\* getters return as it is.
C26_DestroyedListenersSilent ==
  [][ /\ Calls("destroy") =>
            /\ getCurrentUser' = getCurrentUser
            /\ isAuthLoading' = isAuthLoading
            /\ getError' = getError
            /\ cleared' = cleared \cup Subscriptions
      /\ \A j \in DOMAIN notified' :
            notified'[j].during = "emit" =>
              <<notified'[j].event, notified'[j].callback>> \notin cleared' ]_vars

\* the initialization completed after destroy() and signed a user in: the
\* getter returns the user, and the callbacks destroy() removed were not told
C26_Witness ==
  /\ lastCall.method = Null
  /\ lastEv.act \in {"direct_ok", "callback_ok", "existing_ok"}
  /\ <<AuthStateChanged, "h1">> \in cleared
  /\ getCurrentUser = lastEv.user
  /\ ~isAuthLoading
  /\ notified = <<>>

\* C30: whenever an error listener is told of a failed direct-token flow,
\* code exchange or stored-token check, the token store is empty at that
\* moment already.
C30_StoreEmptyWhenErrorTold ==
  \A j \in DOMAIN notified :
    (/\ notified[j].event = ErrorEvent
     /\ notified[j].value \in {ErrAuthRetry, ErrAuthLogin}) =>
      notified[j].store = Null

\* C30 for the stored-token check, whose catch block removes the token first
C30_StoredFlowStoreEmpty ==
  \A j \in DOMAIN notified :
    (/\ notified[j].event = ErrorEvent
     /\ notified[j].value = ErrAuthLogin) =>
      notified[j].store = Null

\* C31: vanilla client, any interleaving of initialization, login() and
\* logout(): whenever no backend request is in flight, a signed-in user
\* implies a stored token; in particular an answer that arrives after a
\* completed logout does not sign the user in again.
C31_QuietUserHasToken ==
  (kind = "vanilla" /\ created /\ inflight = {}) =>
    (user # Null => store \in Tokens)

\* C32: a client instance never has more than one backend request in
\* flight, also when login() or logout() is called while the initialization
\* or another login() or logout() is pending.
C32_OneRequestInFlight == Cardinality(inflight) <= 1

\* C33: a logout() whose backend call succeeds ends with user = null,
\* isLoading = false, error = null and an empty token store, whatever the
\* state it was called in; a second such logout() ends in the same state.
C33_LogoutSuccessClean ==
  Just("logout_ok") =>
    /\ user = Null
    /\ store = Null
    /\ ~isLoading
    /\ error = Null

\* C33 step by step: the call sets isLoading and clears the error; the
\* answer clears user and token store, resets isLoading and leaves the error
\* alone, so the error is null at the end when the answer follows the call
\* with no other answer in between
C33_LogoutAloneClean ==
  [][ /\ (lastEv'.act = "logout") =>
           /\ isLoading'
           /\ error' = Null
      /\ (lastEv'.act = "logout_ok") =>
           /\ user' = Null
           /\ store' = Null
           /\ ~isLoading'
           /\ error' = error
           /\ (lastEv.act = "logout" /\ lastEv.id = lastEv'.id) => error' = Null ]_vars

\* C34: direct-token flow, both clients: the token of the URL is written to
\* the token store, replacing whatever was stored, before the verification
\* request is issued, so the request carries the URL's token.
C34_DirectTokenStoredFirst ==
  [][ lastEv'.act = "start_direct" =>
        /\ Truthy(url.token)
        /\ store' = url.token
        /\ Len(sent') = Len(sent) + 1
        /\ lastEv'.id = Len(sent')
        /\ sent'[lastEv'.id].op = "verify"
        /\ sent'[lastEv'.id].auth = url.token ]_vars

\* the flow started with a different token in the store: the request carries
\* the URL's token and the store holds it
C34_Witness ==
  /\ Just("start_direct")
  /\ store0 \in Tokens \ {url0.token}
  /\ LastRequest.auth = url0.token
  /\ store = url0.token
  /\ lastEv.id \in inflight

\* the step is the continuation of a flow of the initialization whose
\* verification or code exchange succeeded
SuccessStep ==
  /\ lastCall'.method = Null
  /\ lastEv'.act \in {"direct_ok", "callback_ok", "existing_ok"}

\* what the success path leaves: the token stored (the one the exchange
\* returned, or the one that was stored), error as it was, isLoading false
SuccessOutcome ==
  /\ store' = IF lastEv'.act = "callback_ok" THEN lastEv'.token ELSE store
  /\ error' = error
  /\ ~isLoading'

\* C35: vanilla client: when the verification or the code exchange succeeds,
\* the token stays stored, error stays as it was and isLoading ends false,
\* whatever the registered listeners do, throwing included.
C35_ListenersCannotChangeOutcome ==
  [][ SuccessStep => SuccessOutcome ]_vars

\* C35 for the success steps in which no listener throws
C35_QuietListenersOutcome ==
  [][ (SuccessStep /\ NoneThrew) => SuccessOutcome ]_vars

\* a success step with listeners called, none throwing
C35_QuietWitness ==
  /\ lastCall.method = Null
  /\ lastEv.act \in {"direct_ok", "callback_ok", "existing_ok"}
  /\ Len(notified) >= 2
  /\ \A j \in DOMAIN notified : ~notified[j].threw
  /\ store \in Tokens /\ error = Null /\ ~isLoading

\* what the getter that belongs to the event of a listener invocation
\* returned while the listener ran
GetterDuring(n) ==
  CASE n.event = AuthStateChanged -> n.user
    [] n.event = LoadingStateChanged -> n.isLoading
    [] n.event = ErrorEvent -> n.error

\* C36: whenever a listener of the vanilla client is invoked with a value,
\* at its subscription or by an emit, getCurrentUser() / isAuthLoading() /
\* getError() called inside the listener returns that value.
C36_GettersAgreeWithNotification ==
  \A j \in DOMAIN notified : GetterDuring(notified[j]) = notified[j].value

\* one step told a loading listener, an auth listener and an error listener
\* of a change, each finding the new value in its getter
C36_Witness ==
  /\ lastCall.method = Null
  /\ \E j \in DOMAIN notified :
       /\ notified[j].event = AuthStateChanged
       /\ notified[j].during = "emit"
       /\ notified[j].value \in Users
       /\ notified[j].user = notified[j].value
  /\ \E j \in DOMAIN notified :
       /\ notified[j].event = LoadingStateChanged
       /\ notified[j].value = FALSE
       /\ notified[j].isLoading = FALSE

\* an error listener finds the message in getError()
C36_ErrorWitness ==
  \E j \in DOMAIN notified :
    /\ notified[j].event = ErrorEvent
    /\ notified[j].value = ErrLogout
    /\ notified[j].error = ErrLogout

\* the invocations of error listeners the last step made
ErrorNotes == SelectSeq(notified, LAMBDA n : n.event = ErrorEvent)

\* the messages the client sets as its error
ErrorMessages ==
  {ErrInit, ErrAuthRetry, ErrAuthLogin, ErrLogin, ErrLogout, ErrNotInitialized}

\* C38: error listeners of the vanilla client are called with non-null
\* strings only, and a step that leaves getError() null (the error cleared at
\* the start of login, logout or a flow, or no error at all) calls none.
C38_ErrorListenersNeverToldNull ==
  /\ \A j \in DOMAIN ErrorNotes : ErrorNotes[j].value \in ErrorMessages
  /\ getError = Null => ErrorNotes = <<>>

\* logout() cleared the error of a failed direct-token flow (request 1 was
\* answered and left neither user nor token) while an error listener was
\* registered: getError() is null, the loading listener was called, the
\* error listener was not
C38_Witness ==
  /\ lastCall.method = Null
  /\ Just("logout")
  /\ Len(sent) = 2
  /\ sent[1].flow = "direct"
  /\ 1 \notin inflight
  /\ user = Null /\ sent[2].auth = Null
  /\ getError = Null
  /\ Listens(ErrorEvent, "h1")
  /\ ErrorNotes = <<>>

\* an error listener called with a message
C38_ToldWitness ==
  /\ Len(ErrorNotes) = 1
  /\ ErrorNotes[1].value = ErrAuthRetry
  /\ ErrorNotes[1].callback = "h1"
  /\ getError = ErrAuthRetry

\* C37: calling an unsubscribe function that on returned never throws, in
\* whatever state the channel is: after clear(), clear(topic) or destroy(),
\* or a second time.
C37_UnsubscribeNeverThrows ==
  chanEv.op = "unsubscribe" => ~chanEv.threw

\* C37 while the event still has its array: the call does not throw, and
\* changes nothing when the callback is not registered (a second call)
C37_UnsubscribeGoneIsNoOp ==
  [][ (chanEv'.op = "unsubscribe" /\ chanEv'.event \in DOMAIN events) =>
        /\ ~chanEv'.threw
        /\ (\A j \in DOMAIN events[chanEv'.event] :
              events[chanEv'.event][j] # chanEv'.callback) => events' = events
    ]_vars

\* an unsubscribe function called with its registration gone and the array
\* of the event in place
C37_TwiceWitness ==
  /\ chanEv.op = "unsubscribe"
  /\ ~chanEv.threw
  /\ chanEv.event = "error" /\ chanEv.callback = "h1"
  /\ "error" \in DOMAIN events
  /\ events["error"] = <<"h2">>
  /\ <<"error", "h1">> \in unsubscribers

\* the first resolution of the provider has settled: isLoading has fallen
\* from true to false at least once
FirstResolutionSettled == loadFalls >= 1

\* C39: React provider with a LoadingComponent: once the first resolution
\* has settled the children are rendered, with the provider's value, also
\* while a later login() or logout() has isLoading true.
C39_ChildrenStayRendered ==
  (kind = "react" /\ FirstResolutionSettled) =>
    AuthProviderRender(TRUE) = "children"

\* C39 up to the end of the first resolution, and without a
\* LoadingComponent: the placeholder is rendered until isLoading first
\* falls, the children are rendered when isLoading is false, and always
\* when no LoadingComponent was supplied
C39_PlaceholderDuringFirstResolution ==
  kind = "react" =>
    /\ ~FirstResolutionSettled => AuthProviderRender(TRUE) = "LoadingComponent"
    /\ ~isLoading => AuthProviderRender(TRUE) = "children"
    /\ AuthProviderRender(FALSE) = "children"

\* the first resolution settled and the children are rendered with a user
C39_SettledWitness ==
  /\ kind = "react"
  /\ FirstResolutionSettled
  /\ lastEv.act \in {"direct_ok", "callback_ok", "existing_ok"}
  /\ AuthProviderRender(TRUE) = "children"
  /\ ProviderValue.user \in Users
  /\ ~ProviderValue.isLoading

====
